---- MODULE Spec2Model ----
(***************************************************************************)
(* The EditableTextBox widget (components/common/EditableTextBox.tsx): a   *)
(* cursor over a line buffer, a scrolling viewport, incremental search,    *)
(* and SGR mouse input.  Strings are sequences of one-character strings;   *)
(* rows and columns are 0-based as in the source.                          *)
(***************************************************************************)
EXTENDS Integers, Sequences, FiniteSets, TLC

VARIABLES
    phase,              \* "mounted" | "unmounted" | "crashed" (a handler threw)
    content,            \* prop content: the full text
    height,             \* prop height
    isActive,           \* prop isActive
    readOnly,           \* prop readOnly
    cursor,             \* state cursor: [row, col]
    scrollTop,          \* state scrollTop
    manualScroll,       \* manualScrollRef.current
    timerPending,       \* the 500 ms timer of the auto-scroll effect is armed
    searchMode,         \* state searchMode
    searchQuery,        \* state searchQuery
    searchMatches,      \* state searchMatches
    currentMatchIndex,  \* state currentMatchIndex
    inbuf,              \* `buffer` of the mouse effect's closure
    ttyOut,             \* what the last step wrote to stdout
    mouseOn,            \* the terminal reports the mouse
    stream,             \* parser harness: bytes of the terminal not yet delivered
    decoded,            \* parser harness: events decoded so far
    probe               \* pure-function harness: inputs and result of one call

vars == <<phase, content, height, isActive, readOnly, cursor, scrollTop,
          manualScroll, timerPending, searchMode, searchQuery, searchMatches,
          currentMatchIndex, inbuf, ttyOut, mouseOn, stream, decoded,
          probe>>

----------------------------------------------------------------------------
(* Bounds of the model *)

MaxContentLen == 2
MaxQueryLen == 1
MaxLifeLen == 1
MaxSeqs == 2
MaxProbeLen == 3
MaxProbeLines == 3
MaxProbeQuery == 2
MaxSplitLen == 4

(* Program constants *)

ROW_WEIGHT == 1000
WHEEL_STEP == 2
BUFFER_LIMIT == 128
BUFFER_TAIL == 32
GRACE_MS == 500
DEFAULT_COLUMNS == 80
SCREEN_TOP == 4
SCREEN_LEFT == 0

----------------------------------------------------------------------------
(* JavaScript string and array primitives, as the widget uses them *)

NL == "\n"
ESC == "esc"

Max(a, b) == IF a >= b THEN a ELSE b
Min(a, b) == IF a <= b THEN a ELSE b
Abs(a) == IF a >= 0 THEN a ELSE 0 - a

\* s.slice(from, to) for 0 <= from, to: clamps to the string
Slice(s, from, to) ==
    LET f == Min(Max(from, 0), Len(s))
        t == Min(Max(to, 0), Len(s))
    IN IF f >= t THEN << >> ELSE SubSeq(s, f + 1, t)

\* s.slice(from)
SliceFrom(s, from) == Slice(s, from, Len(s))

\* s.slice(-n)
SliceLast(s, n) == Slice(s, Len(s) - n, Len(s))

\* c.toLowerCase() for one character of the model's alphabet
LowerChar(c) ==
    CASE c = "A" -> "a"
      [] c = "B" -> "b"
      [] c = "X" -> "x"
      [] OTHER -> c

\* s.toLowerCase()
ToLowerCase(s) == [i \in 1..Len(s) |-> LowerChar(s[i])]

\* hay.indexOf(needle, from): least index >= from where needle occurs, else -1
IndexOf(hay, needle, from) ==
    LET hits == {i \in Max(from, 0)..(Len(hay) - Len(needle)) :
                    SubSeq(hay, i + 1, i + Len(needle)) = needle}
    IN IF hits = {} THEN -1 ELSE CHOOSE i \in hits : \A j \in hits : i <= j

\* content.split('\n')
RECURSIVE SplitFrom(_, _, _)
SplitFrom(s, i, cur) ==
    IF i > Len(s) THEN <<cur>>
    ELSE IF s[i] = NL THEN <<cur>> \o SplitFrom(s, i + 1, << >>)
    ELSE SplitFrom(s, i + 1, Append(cur, s[i]))

\* a split that drops an empty last piece
SplitDropsLastEmpty(s) ==
    LET ls == SplitFrom(s, 1, << >>)
    IN IF Len(ls) > 1 /\ ls[Len(ls)] = << >>
       THEN SubSeq(ls, 1, Len(ls) - 1)
       ELSE ls

Split(s) == SplitFrom(s, 1, << >>)

\* newLines.join('\n')
RECURSIVE Join(_)
Join(ls) ==
    IF Len(ls) = 0 THEN << >>
    ELSE IF Len(ls) = 1 THEN ls[1]
    ELSE ls[1] \o <<NL>> \o Join(Tail(ls))

\* lines[r]?.length || 0
LineLen(ls, r) == IF r >= 0 /\ r < Len(ls) THEN Len(ls[r + 1]) ELSE 0

\* lines[r] || ''
LineOr(ls, r) == IF r >= 0 /\ r < Len(ls) THEN ls[r + 1] ELSE << >>

----------------------------------------------------------------------------
(* Derived values of one render *)

\* const safeHeight = Math.max(1, height - 3)
SafeHeight(h) == Max(1, h - 3)

\* const maxScroll = Math.max(0, totalLines - safeHeight)
MaxScroll(ls, h) == Max(0, Len(ls) - SafeHeight(h))

ContentTop == SCREEN_TOP + 1
ContentLeft == SCREEN_LEFT + 2
ContentWidth == Max(1, DEFAULT_COLUMNS - 4)

----------------------------------------------------------------------------
(* Search *)

\* a variant recording the column the scan resumes at
MatchAtResume(r, c, n) == [row |-> r, col |-> c + 1, length |-> n]

Match(r, c, n) == [row |-> r, col |-> c, length |-> n]

\* the while loop of findMatches on one line: the scan resumes one past each
\* found start
RECURSIVE LineMatches(_, _, _, _, _)
LineMatches(lowerLine, lowerQuery, rowIndex, qlen, startIndex) ==
    LET foundIndex == IndexOf(lowerLine, lowerQuery, startIndex)
    IN IF foundIndex = -1 THEN << >>
       ELSE <<Match(rowIndex, foundIndex, qlen)>>
            \o LineMatches(lowerLine, lowerQuery, rowIndex, qlen, foundIndex + 1)

RECURSIVE MatchesFromRow(_, _, _)
MatchesFromRow(ls, query, rowIndex) ==
    IF rowIndex >= Len(ls) THEN << >>
    ELSE LineMatches(ToLowerCase(ls[rowIndex + 1]), ToLowerCase(query),
                     rowIndex, Len(query), 0)
         \o MatchesFromRow(ls, query, rowIndex + 1)

FindMatches(ls, query) ==
    IF query = << >> THEN << >> ELSE MatchesFromRow(ls, query, 0)

\* the distance the search effect minimises
Distance(m, cur) ==
    Abs(m.row - cur.row) * ROW_WEIGHT + Abs(m.col - cur.col)

\* matches.forEach with a strict <: the first index of least distance
ClosestIndex(matches, cur) ==
    (CHOOSE i \in 1..Len(matches) :
        /\ \A j \in 1..Len(matches) :
              Distance(matches[i], cur) <= Distance(matches[j], cur)
        /\ \A j \in 1..(i - 1) :
              Distance(matches[j], cur) > Distance(matches[i], cur)) - 1

----------------------------------------------------------------------------
(* The component's state as one record: props, React state, refs *)

St == [content |-> content, height |-> height, isActive |-> isActive,
       readOnly |-> readOnly, cursor |-> cursor, scrollTop |-> scrollTop,
       manualScroll |-> manualScroll, timerPending |-> timerPending,
       searchMode |-> searchMode, searchQuery |-> searchQuery,
       searchMatches |-> searchMatches,
       currentMatchIndex |-> currentMatchIndex,
       inbuf |-> inbuf, ttyOut |-> ttyOut, mouseOn |-> mouseOn]

Lines(s) == Split(s.content)

Pos(r, c) == [row |-> r, col |-> c]

\* the updater of the cursor clamp effect
ClampCursor(ls, prev) ==
    LET newRow == Min(prev.row, Max(0, Len(ls) - 1))
        newCol == Min(prev.col, LineLen(ls, newRow))
    IN Pos(newRow, newCol)

\* jumpToMatch(matchIndex), in the closure of render s: whether it finds a
\* match to jump to, and whether and where it scrolls
JumpHits(s, matchIndex) ==
    /\ Len(s.searchMatches) > 0
    /\ matchIndex >= 0
    /\ matchIndex < Len(s.searchMatches)

\* a jump that always takes the first match
JumpTargetFirst(s, matchIndex) == s.searchMatches[1]

JumpTarget(s, matchIndex) == s.searchMatches[matchIndex + 1]

JumpScrolls(s, matchIndex) ==
    /\ JumpHits(s, matchIndex)
    /\ \/ JumpTarget(s, matchIndex).row < s.scrollTop
       \/ JumpTarget(s, matchIndex).row >= s.scrollTop + SafeHeight(s.height)

JumpScrollTop(s, matchIndex) ==
    LET m == JumpTarget(s, matchIndex)
    IN IF m.row < s.scrollTop THEN m.row
       ELSE Min(MaxScroll(Lines(s), s.height),
                m.row - (SafeHeight(s.height) \div 2))

\* state after jumpToMatch(matchIndex) called from a handler of render s
JumpToMatch(s, matchIndex) ==
    IF ~JumpHits(s, matchIndex) THEN s
    ELSE [s EXCEPT
            !.cursor = Pos(JumpTarget(s, matchIndex).row,
                           JumpTarget(s, matchIndex).col),
            !.scrollTop = IF JumpScrolls(s, matchIndex)
                          THEN JumpScrollTop(s, matchIndex) ELSE @]

----------------------------------------------------------------------------
(* The effects of one commit.  prev is the render committed before, cur the *)
(* render being committed; an effect runs when one of its dependencies      *)
(* differs between the two (or on mount), in the order of the source, and   *)
(* the state updates it makes are applied together in the next render.      *)

MOUSE_ENABLE == "1000h1006h"
MOUSE_DISABLE == "1006l1000l"

\* deps [content, lines.length]
ClampRuns(prev, cur, first) == first \/ prev.content # cur.content

\* deps [cursor.row, scrollTop, safeHeight, maxScroll, setScrollTopSafe]
AutoScrollRuns(prev, cur, first) ==
    \/ first
    \/ prev.cursor.row # cur.cursor.row
    \/ prev.scrollTop # cur.scrollTop
    \/ SafeHeight(prev.height) # SafeHeight(cur.height)
    \/ MaxScroll(Lines(prev), prev.height) # MaxScroll(Lines(cur), cur.height)

\* deps [stdin, stdout, isActive, contentTop, contentLeft, contentHeight,
\*       contentWidth, setScrollTopSafe]
\* a variant with deps [isActive, stdin] only
MouseRunsOnActive(prev, cur, first) == first \/ prev.isActive # cur.isActive

MouseRuns(prev, cur, first) ==
    \/ first
    \/ prev.isActive # cur.isActive
    \/ SafeHeight(prev.height) # SafeHeight(cur.height)

\* a variant with deps [searchQuery, searchMode] only
SearchRunsOnQuery(prev, cur, first) ==
    \/ first
    \/ prev.searchQuery # cur.searchQuery
    \/ prev.searchMode # cur.searchMode

\* deps [searchQuery, searchMode, findMatches]; findMatches changes with lines
SearchRuns(prev, cur, first) ==
    \/ first
    \/ prev.searchQuery # cur.searchQuery
    \/ prev.searchMode # cur.searchMode
    \/ prev.content # cur.content

\* the auto-scroll effect past its manual-scroll guard: does it scroll, where
AutoScrolls(s) ==
    /\ ~s.manualScroll
    /\ \/ s.cursor.row < s.scrollTop
       \/ s.cursor.row >= s.scrollTop + SafeHeight(s.height)

\* a variant putting the cursor row on the first visible row in both cases
AutoScrollTopAtCursor(s) == s.cursor.row

AutoScrollTop(s) ==
    IF s.cursor.row < s.scrollTop THEN s.cursor.row
    ELSE Min(MaxScroll(Lines(s), s.height),
             s.cursor.row - SafeHeight(s.height) + 1)

\* the search effect's branch: searchMode && searchQuery
SearchActive(s) == s.searchMode /\ s.searchQuery # << >>

\* the search effect jumps: matches were found, and jumpToMatch, which reads
\* the searchMatches of its own render, finds an entry at closestIndex
EffectJumps(s, matches) ==
    /\ SearchActive(s)
    /\ Len(matches) > 0
    /\ JumpHits(s, ClosestIndex(matches, s.cursor))

\* the writes of the mouse effect: the cleanup of the run before, if that
\* run had subscribed, then the new run
\* a variant whose cleanup writes only when the widget went inactive
MouseWritesLateCleanup(prev, cur, first) ==
    (IF ~first /\ prev.isActive /\ ~cur.isActive
     THEN <<MOUSE_DISABLE>> ELSE << >>)
    \o (IF cur.isActive THEN <<MOUSE_ENABLE>> ELSE << >>)

\* a variant without cleanup
MouseWritesNoCleanup(prev, cur, first) ==
    IF cur.isActive THEN <<MOUSE_ENABLE>> ELSE << >>

MouseWrites(prev, cur, first) ==
    (IF ~first /\ prev.isActive THEN <<MOUSE_DISABLE>> ELSE << >>)
    \o (IF cur.isActive THEN <<MOUSE_ENABLE>> ELSE << >>)

\* the terminal's mouse reporting after it read the writes
RECURSIVE TtyAfter(_, _)
TtyAfter(on, writes) ==
    IF Len(writes) = 0 THEN on
    ELSE TtyAfter(Head(writes) = MOUSE_ENABLE, Tail(writes))

EffectsPass(prev, cur, first) ==
    LET ls == Lines(cur)
        searchRuns == SearchRuns(prev, cur, first)
        autoRuns == AutoScrollRuns(prev, cur, first)
        mouseRuns == MouseRuns(prev, cur, first)
        matches == FindMatches(ls, cur.searchQuery)
        closestIndex == ClosestIndex(matches, cur.cursor)
        jumps == searchRuns /\ EffectJumps(cur, matches)
    IN [cur EXCEPT
          !.cursor =
              IF jumps THEN JumpToMatch(cur, closestIndex).cursor
              ELSE IF ClampRuns(prev, cur, first) THEN ClampCursor(ls, cur.cursor)
              ELSE @,
          !.scrollTop =
              IF jumps /\ JumpScrolls(cur, closestIndex)
              THEN JumpScrollTop(cur, closestIndex)
              ELSE IF autoRuns /\ AutoScrolls(cur) THEN AutoScrollTop(cur)
              ELSE @,
          !.timerPending = IF autoRuns THEN cur.manualScroll ELSE @,
          !.searchMatches =
              IF ~searchRuns THEN @
              ELSE IF SearchActive(cur) THEN matches
              ELSE << >>,
          !.currentMatchIndex =
              IF ~searchRuns THEN @
              ELSE IF ~SearchActive(cur) THEN 0
              ELSE IF Len(matches) > 0 THEN closestIndex
              ELSE @,
          !.inbuf = IF mouseRuns THEN << >> ELSE @,
          !.ttyOut =
              IF mouseRuns THEN @ \o MouseWrites(prev, cur, first) ELSE @,
          !.mouseOn =
              IF mouseRuns THEN TtyAfter(@, MouseWrites(prev, cur, first))
              ELSE @]

\* what a state update can change; a commit that changes none of it is the last
ReactState(s) ==
    <<s.cursor, s.scrollTop, s.searchMatches, s.currentMatchIndex>>

\* render and commit until no effect updates the state any more
RECURSIVE Rerender(_, _, _)
Rerender(prev, cur, first) ==
    LET next == EffectsPass(prev, cur, first)
    IN IF ReactState(next) = ReactState(cur) THEN next
       ELSE Rerender(cur, next, FALSE)

\* the component after its first render with the given props
Mount(c, h, active, ro) ==
    LET first == [content |-> c, height |-> h, isActive |-> active,
                  readOnly |-> ro, cursor |-> Pos(0, 0), scrollTop |-> 0,
                  manualScroll |-> FALSE, timerPending |-> FALSE,
                  searchMode |-> FALSE, searchQuery |-> << >>,
                  searchMatches |-> << >>, currentMatchIndex |-> 0,
                  inbuf |-> << >>, ttyOut |-> << >>, mouseOn |-> FALSE]
    IN Rerender(first, first, TRUE)

----------------------------------------------------------------------------
(* Line buffer edits of the key handler, on newLines = [...lines] *)

\* String(undefined), what `line + newLines[row]` appends for a missing row
UNDEFINED == <<"u", "n", "d", "e", "f", "i", "n", "e", "d">>

\* newLines[row] = v, which lengthens the array when row is past its end;
\* join renders the holes as empty lines
SetLine(ls, row, v) ==
    [i \in 1..Max(Len(ls), row + 1) |->
        IF i = row + 1 THEN v ELSE IF i <= Len(ls) THEN ls[i] ELSE << >>]

\* newLines.splice(row, 1)
RemoveLine(ls, row) ==
    IF row >= Len(ls) THEN ls
    ELSE SubSeq(ls, 1, row) \o SubSeq(ls, row + 2, Len(ls))

\* newLines.splice(row, 0, v)
InsertLine(ls, row, v) ==
    LET at == Min(row, Len(ls))
    IN SubSeq(ls, 1, at) \o <<v>> \o SubSeq(ls, at + 1, Len(ls))

Edit(ls, cur) == [lines |-> ls, cursor |-> cur]

\* Backspace/Delete: reads newLines[row].slice or newLines[row - 1].length,
\* which throws a TypeError when that row does not exist
DeleteThrows(ls, cur) ==
    \/ cur.col > 0 /\ cur.row >= Len(ls)
    \/ cur.col = 0 /\ cur.row > 0 /\ cur.row - 1 >= Len(ls)

\* Backspace at the start of a line that appends the line to the previous
\* one but leaves it in place
DeleteBackwardKeepsLine(ls, cur) ==
    IF cur.col > 0
    THEN Edit(SetLine(ls, cur.row,
                      Slice(ls[cur.row + 1], 0, cur.col - 1)
                      \o SliceFrom(ls[cur.row + 1], cur.col)),
              Pos(cur.row, cur.col - 1))
    ELSE IF cur.row > 0
    THEN Edit(SetLine(ls, cur.row - 1, ls[cur.row] \o ls[cur.row + 1]),
              Pos(cur.row - 1, Len(ls[cur.row])))
    ELSE Edit(ls, cur)

DeleteBackward(ls, cur) ==
    IF cur.col > 0
    THEN Edit(SetLine(ls, cur.row,
                      Slice(ls[cur.row + 1], 0, cur.col - 1)
                      \o SliceFrom(ls[cur.row + 1], cur.col)),
              Pos(cur.row, cur.col - 1))
    ELSE IF cur.row > 0
    THEN Edit(RemoveLine(SetLine(ls, cur.row - 1,
                                 ls[cur.row]
                                 \o (IF cur.row < Len(ls) THEN ls[cur.row + 1]
                                     ELSE UNDEFINED)),
                         cur.row),
              Pos(cur.row - 1, Len(ls[cur.row])))
    ELSE Edit(ls, cur)

\* Enter that opens an empty line and loses the rest of the current one
SplitLineDropsRest(ls, cur) ==
    LET currentLine == LineOr(ls, cur.row)
    IN Edit(InsertLine(SetLine(ls, cur.row, Slice(currentLine, 0, cur.col)),
                       cur.row + 1, << >>),
            Pos(cur.row + 1, 0))

\* Enter
SplitLine(ls, cur) ==
    LET currentLine == LineOr(ls, cur.row)
    IN Edit(InsertLine(SetLine(ls, cur.row, Slice(currentLine, 0, cur.col)),
                       cur.row + 1, SliceFrom(currentLine, cur.col)),
            Pos(cur.row + 1, 0))

\* a printable character that replaces the one under the cursor
InsertCharOverwrites(ls, cur, ch) ==
    LET currentLine == LineOr(ls, cur.row)
    IN Edit(SetLine(ls, cur.row,
                    Slice(currentLine, 0, cur.col) \o <<ch>>
                    \o SliceFrom(currentLine, cur.col + 1)),
            Pos(cur.row, cur.col + 1))

\* a printable character
InsertChar(ls, cur, ch) ==
    LET currentLine == LineOr(ls, cur.row)
    IN Edit(SetLine(ls, cur.row,
                    Slice(currentLine, 0, cur.col) \o <<ch>>
                    \o SliceFrom(currentLine, cur.col)),
            Pos(cur.row, cur.col + 1))

----------------------------------------------------------------------------
(* Cursor motion of the key handler *)

MoveUp(ls, prev) ==
    Pos(Max(0, prev.row - 1),
        Min(prev.col, LineLen(ls, Max(0, prev.row - 1))))

\* a variant keeping the column
MoveDownKeepCol(ls, prev) == Pos(Min(Len(ls) - 1, prev.row + 1), prev.col)

MoveDown(ls, prev) ==
    Pos(Min(Len(ls) - 1, prev.row + 1),
        Min(prev.col, LineLen(ls, Min(Len(ls) - 1, prev.row + 1))))

\* a variant that does not wrap to the previous line
MoveLeftNoWrap(ls, prev) ==
    IF prev.col > 0 THEN Pos(prev.row, prev.col - 1) ELSE prev

MoveLeft(ls, prev) ==
    IF prev.col > 0 THEN Pos(prev.row, prev.col - 1)
    ELSE IF prev.row > 0 THEN Pos(prev.row - 1, LineLen(ls, prev.row - 1))
    ELSE prev

MoveRight(ls, prev) ==
    IF prev.col < LineLen(ls, prev.row) THEN Pos(prev.row, prev.col + 1)
    ELSE IF prev.row < Len(ls) - 1 THEN Pos(prev.row + 1, 0)
    ELSE prev

\* a variant keeping the column
PageUpCursorKeepsCol(ls, prev, sh) == Pos(Max(0, prev.row - sh), prev.col)

PageUpCursor(ls, prev, sh) == Pos(Max(0, prev.row - sh), 0)

PageDownCursor(ls, prev, sh) == Pos(Min(Len(ls) - 1, prev.row + sh), 0)

----------------------------------------------------------------------------
(* The useInput handler *)

Key(n, i, c, m) == [name |-> n, input |-> i, ctrl |-> c, meta |-> m]

\* input && input.length === 1 && !key.ctrl && !key.meta
IsPrintable(key) == key.input # "" /\ ~key.ctrl /\ ~key.meta

IsBackspace(key) == key.name \in {"backspace", "delete"}

\* a variant without the wrap-around
NextMatchNoWrap(s) ==
    IF Len(s.searchMatches) = 0 THEN s
    ELSE [JumpToMatch(s, s.currentMatchIndex + 1)
          EXCEPT !.currentMatchIndex = s.currentMatchIndex + 1]

NextMatch(s) ==
    IF Len(s.searchMatches) = 0 THEN s
    ELSE LET nextIndex == (s.currentMatchIndex + 1) % Len(s.searchMatches)
         IN [JumpToMatch(s, nextIndex) EXCEPT !.currentMatchIndex = nextIndex]

\* a variant that steps back without wrapping
PrevMatchNoWrap(s) ==
    IF Len(s.searchMatches) = 0 THEN s
    ELSE LET prevIndex == s.currentMatchIndex - 1
         IN [JumpToMatch(s, prevIndex) EXCEPT !.currentMatchIndex = prevIndex]

PrevMatch(s) ==
    IF Len(s.searchMatches) = 0 THEN s
    ELSE LET prevIndex == (s.currentMatchIndex - 1 + Len(s.searchMatches))
                             % Len(s.searchMatches)
         IN [JumpToMatch(s, prevIndex) EXCEPT !.currentMatchIndex = prevIndex]

\* a search-mode branch whose Escape leaves the query and jumps to the
\* current match as Enter does
SearchKeyEscapeJumps(s, key) ==
    IF key.name = "escape" \/ key.name = "return"
    THEN [(IF Len(s.searchMatches) > 0
           THEN JumpToMatch(s, s.currentMatchIndex) ELSE s)
          EXCEPT !.searchMode = FALSE]
    ELSE IF IsBackspace(key)
    THEN [s EXCEPT !.searchQuery = Slice(@, 0, Len(@) - 1)]
    ELSE IF (key.ctrl /\ key.input = "n") \/ key.name = "downArrow"
    THEN NextMatch(s)
    ELSE IF (key.ctrl /\ key.input = "p") \/ key.name = "upArrow"
    THEN PrevMatch(s)
    ELSE IF IsPrintable(key)
    THEN [s EXCEPT !.searchQuery = Append(@, key.input)]
    ELSE s

\* a variant whose Enter jumps to the match and stays in search mode
SearchKeyEnterStays(s, key) ==
    IF key.name = "escape"
    THEN [s EXCEPT !.searchMode = FALSE, !.searchQuery = << >>,
                   !.searchMatches = << >>]
    ELSE IF key.name = "return"
    THEN IF Len(s.searchMatches) > 0
         THEN JumpToMatch(s, s.currentMatchIndex) ELSE s
    ELSE IF IsBackspace(key)
    THEN [s EXCEPT !.searchQuery = Slice(@, 0, Len(@) - 1)]
    ELSE IF (key.ctrl /\ key.input = "n") \/ key.name = "downArrow"
    THEN NextMatch(s)
    ELSE IF (key.ctrl /\ key.input = "p") \/ key.name = "upArrow"
    THEN PrevMatch(s)
    ELSE IF IsPrintable(key)
    THEN [s EXCEPT !.searchQuery = Append(@, key.input)]
    ELSE s

\* the branch taken while searchMode is set
SearchKey(s, key) ==
    IF key.name = "escape"
    THEN [s EXCEPT !.searchMode = FALSE, !.searchQuery = << >>,
                   !.searchMatches = << >>]
    ELSE IF key.name = "return"
    THEN [(IF Len(s.searchMatches) > 0
           THEN JumpToMatch(s, s.currentMatchIndex) ELSE s)
          EXCEPT !.searchMode = FALSE]
    ELSE IF IsBackspace(key)
    THEN [s EXCEPT !.searchQuery = Slice(@, 0, Len(@) - 1)]
    ELSE IF (key.ctrl /\ key.input = "n") \/ key.name = "downArrow"
    THEN NextMatch(s)
    ELSE IF (key.ctrl /\ key.input = "p") \/ key.name = "upArrow"
    THEN PrevMatch(s)
    ELSE IF IsPrintable(key)
    THEN [s EXCEPT !.searchQuery = Append(@, key.input)]
    ELSE s

\* an edit whose cursor update is lost
ApplyEditLosesCursor(s, e) == [s EXCEPT !.content = Join(e.lines)]

\* an edit key in writable mode: the cursor is set and onChange hands the
\* joined lines to the host, which stores them as the new content
ApplyEdit(s, e) == [s EXCEPT !.cursor = e.cursor, !.content = Join(e.lines)]

\* a normal-mode branch that edits whether the widget is read-only or not
NormalKeyIgnoresReadOnly(s, key) ==
    LET ls == Lines(s)
        sh == SafeHeight(s.height)
    IN IF key.ctrl /\ key.input = "e" THEN s
       ELSE IF (key.ctrl /\ key.input = "f")
               \/ (key.input = "/" /\ ~key.ctrl /\ ~key.meta)
       THEN [s EXCEPT !.searchMode = TRUE, !.searchQuery = << >>]
       ELSE IF key.ctrl /\ key.input = "s" THEN s
       ELSE IF key.name = "upArrow"
       THEN [s EXCEPT !.cursor = MoveUp(ls, @)]
       ELSE IF key.name = "downArrow"
       THEN [s EXCEPT !.cursor = MoveDown(ls, @)]
       ELSE IF key.name = "leftArrow"
       THEN [s EXCEPT !.cursor = MoveLeft(ls, @)]
       ELSE IF key.name = "rightArrow"
       THEN [s EXCEPT !.cursor = MoveRight(ls, @)]
       ELSE IF key.name = "pageUp"
       THEN [s EXCEPT !.cursor = PageUpCursor(ls, @, sh),
                      !.scrollTop = Max(0, @ - sh)]
       ELSE IF key.name = "pageDown"
       THEN [s EXCEPT !.cursor = PageDownCursor(ls, @, sh),
                      !.scrollTop = Min(MaxScroll(ls, s.height), @ + sh)]
       ELSE IF IsBackspace(key)
       THEN ApplyEdit(s, DeleteBackward(ls, s.cursor))
       ELSE IF key.name = "return"
       THEN ApplyEdit(s, SplitLine(ls, s.cursor))
       ELSE IF IsPrintable(key)
       THEN ApplyEdit(s, InsertChar(ls, s.cursor, key.input))
       ELSE s

\* the branch taken in normal mode
NormalKey(s, key) ==
    LET ls == Lines(s)
        sh == SafeHeight(s.height)
    IN IF key.ctrl /\ key.input = "e" THEN s
       ELSE IF (key.ctrl /\ key.input = "f")
               \/ (key.input = "/" /\ ~key.ctrl /\ ~key.meta)
       THEN [s EXCEPT !.searchMode = TRUE, !.searchQuery = << >>]
       ELSE IF key.ctrl /\ key.input = "s" THEN s
       ELSE IF key.name = "upArrow"
       THEN [s EXCEPT !.cursor = MoveUp(ls, @)]
       ELSE IF key.name = "downArrow"
       THEN [s EXCEPT !.cursor = MoveDown(ls, @)]
       ELSE IF key.name = "leftArrow"
       THEN [s EXCEPT !.cursor = MoveLeft(ls, @)]
       ELSE IF key.name = "rightArrow"
       THEN [s EXCEPT !.cursor = MoveRight(ls, @)]
       ELSE IF key.name = "pageUp"
       THEN [s EXCEPT !.cursor = PageUpCursor(ls, @, sh),
                      !.scrollTop = Max(0, @ - sh)]
       ELSE IF key.name = "pageDown"
       THEN [s EXCEPT !.cursor = PageDownCursor(ls, @, sh),
                      !.scrollTop = Min(MaxScroll(ls, s.height), @ + sh)]
       ELSE IF s.readOnly THEN s
       ELSE IF IsBackspace(key)
       THEN ApplyEdit(s, DeleteBackward(ls, s.cursor))
       ELSE IF key.name = "return"
       THEN ApplyEdit(s, SplitLine(ls, s.cursor))
       ELSE IF IsPrintable(key)
       THEN ApplyEdit(s, InsertChar(ls, s.cursor, key.input))
       ELSE s

\* the handler reaches the Backspace branch of normal, writable mode
ReachesDelete(s, key) ==
    /\ s.isActive /\ ~s.searchMode /\ ~s.readOnly
    /\ IsBackspace(key)

\* the handler throws instead of returning
KeyThrows(s, key) == ReachesDelete(s, key) /\ DeleteThrows(Lines(s), s.cursor)

\* a handler that takes printable characters as edits in search mode too
HandleKeyTypesInSearch(s, key) ==
    IF ~s.isActive THEN s
    ELSE IF s.searchMode /\ ~IsPrintable(key) THEN SearchKey(s, key)
    ELSE NormalKey(s, key)

HandleKey(s, key) ==
    IF ~s.isActive THEN s
    ELSE IF s.searchMode THEN SearchKey(s, key)
    ELSE NormalKey(s, key)

\* callbacks of a handler whose Enter forgets updateContent
CallbacksSilentEnter(s, key) ==
    IF ~s.isActive \/ s.searchMode THEN << >>
    ELSE IF key.ctrl /\ key.input = "e" THEN <<"onOpenExternalEditor">>
    ELSE IF (key.ctrl /\ key.input = "f")
            \/ (key.input = "/" /\ ~key.ctrl /\ ~key.meta)
    THEN << >>
    ELSE IF key.ctrl /\ key.input = "s" THEN <<"onSave">>
    ELSE IF key.name \in {"upArrow", "downArrow", "leftArrow", "rightArrow",
                          "pageUp", "pageDown"}
    THEN << >>
    ELSE IF s.readOnly
    THEN IF IsBackspace(key) \/ key.name = "return" \/ IsPrintable(key)
         THEN <<"onRequestWritable">>
         ELSE << >>
    ELSE IF IsBackspace(key) \/ IsPrintable(key)
    THEN <<"onChange">>
    ELSE << >>

\* the callbacks of the host that the handler invokes, in order
Callbacks(s, key) ==
    IF ~s.isActive \/ s.searchMode THEN << >>
    ELSE IF key.ctrl /\ key.input = "e" THEN <<"onOpenExternalEditor">>
    ELSE IF (key.ctrl /\ key.input = "f")
            \/ (key.input = "/" /\ ~key.ctrl /\ ~key.meta)
    THEN << >>
    ELSE IF key.ctrl /\ key.input = "s" THEN <<"onSave">>
    ELSE IF key.name \in {"upArrow", "downArrow", "leftArrow", "rightArrow",
                          "pageUp", "pageDown"}
    THEN << >>
    ELSE IF s.readOnly
    THEN IF IsBackspace(key) \/ key.name = "return" \/ IsPrintable(key)
         THEN <<"onRequestWritable">>
         ELSE << >>
    ELSE IF IsBackspace(key) \/ key.name = "return" \/ IsPrintable(key)
    THEN <<"onChange">>
    ELSE << >>

----------------------------------------------------------------------------
(* The SGR mouse parser of handleData: SGR_MOUSE_REGEX run over the buffer  *)

DIGITS == <<"0", "1", "2", "3", "4", "5", "6", "7", "8", "9">>

IsDigit(c) == \E k \in 1..Len(DIGITS) : DIGITS[k] = c

DigitVal(c) == (CHOOSE k \in 1..Len(DIGITS) : DIGITS[k] = c) - 1

\* parseInt(digits, 10)
RECURSIVE ParseInt(_)
ParseInt(ds) ==
    IF Len(ds) = 0 THEN 0
    ELSE ParseInt(SubSeq(ds, 1, Len(ds) - 1)) * 10 + DigitVal(ds[Len(ds)])

\* String(n) for n >= 0
RECURSIVE ToDigits(_)
ToDigits(n) ==
    IF n < 10 THEN <<DIGITS[n + 1]>>
    ELSE ToDigits(n \div 10) \o <<DIGITS[(n % 10) + 1]>>

\* buf[i] with 0-based i, "" past the end
CharAt(buf, i) == IF i >= 0 /\ i < Len(buf) THEN buf[i + 1] ELSE ""

\* \d+ from index i: the index after the last digit of the run (i if none)
RECURSIVE DigitsEnd(_, _)
DigitsEnd(buf, i) ==
    IF IsDigit(CharAt(buf, i)) THEN DigitsEnd(buf, i + 1) ELSE i

\* the regex anchored at index i: the index after the match, or -1
MatchEnd(buf, i) ==
    LET b == DigitsEnd(buf, i + 3)
        c == DigitsEnd(buf, b + 1)
        r == DigitsEnd(buf, c + 1)
    IN IF /\ CharAt(buf, i) = ESC
          /\ CharAt(buf, i + 1) = "["
          /\ CharAt(buf, i + 2) = "<"
          /\ b > i + 3 /\ CharAt(buf, b) = ";"
          /\ c > b + 1 /\ CharAt(buf, c) = ";"
          /\ r > c + 1 /\ CharAt(buf, r) \in {"M", "m"}
       THEN r + 1 ELSE -1

\* the event of the match that starts at index i
EventAt(buf, i) ==
    LET b == DigitsEnd(buf, i + 3)
        c == DigitsEnd(buf, b + 1)
        r == DigitsEnd(buf, c + 1)
    IN [button |-> ParseInt(Slice(buf, i + 3, b)),
        screenX |-> ParseInt(Slice(buf, b + 1, c)) - 1,
        screenY |-> ParseInt(Slice(buf, c + 1, r)) - 1,
        isPress |-> CharAt(buf, r) = "M"]

\* SGR_MOUSE_REGEX.exec(buffer) from lastIndex: where the next match starts
NextMatchStart(buf, lastIndex) ==
    LET starts == {i \in lastIndex..(Len(buf) - 1) :
                      CharAt(buf, i) = ESC /\ MatchEnd(buf, i) # -1}
    IN IF starts = {} THEN -1
       ELSE CHOOSE i \in starts : \A j \in starts : i <= j

\* the while loop: all events, and consumedUntil
RECURSIVE ScanBuffer(_, _)
ScanBuffer(buf, lastIndex) ==
    LET i == NextMatchStart(buf, lastIndex)
    IN IF i = -1 THEN [events |-> << >>, consumedUntil |-> 0]
       ELSE LET lastIndexAfter == MatchEnd(buf, i)
                rest == ScanBuffer(buf, lastIndexAfter)
            IN [events |-> <<EventAt(buf, i)>> \o rest.events,
                consumedUntil |-> Max(lastIndexAfter, rest.consumedUntil)]

\* a variant keeping nothing of a chunk without a match
ResidualDropsPartial(buf, consumedUntil) ==
    IF consumedUntil > 0 THEN SliceFrom(buf, consumedUntil) ELSE << >>

\* a variant keeping the first bytes of a buffer over the limit
ResidualKeepsHead(buf, consumedUntil) ==
    IF consumedUntil > 0 THEN SliceFrom(buf, consumedUntil)
    ELSE IF Len(buf) > BUFFER_LIMIT THEN Slice(buf, 0, BUFFER_TAIL)
    ELSE buf

\* a variant that never cuts the buffer
ResidualNeverCuts(buf, consumedUntil) ==
    IF consumedUntil > 0 THEN SliceFrom(buf, consumedUntil) ELSE buf

\* what is left in the buffer once the chunk has been scanned
Residual(buf, consumedUntil) ==
    IF consumedUntil > 0 THEN SliceFrom(buf, consumedUntil)
    ELSE IF Len(buf) > BUFFER_LIMIT THEN SliceLast(buf, BUFFER_TAIL)
    ELSE buf

\* the bytes the terminal sends for one event
Encode(button, col, row, final) ==
    <<ESC, "[", "<">> \o ToDigits(button) \o <<";">> \o ToDigits(col)
    \o <<";">> \o ToDigits(row) \o <<final>>

----------------------------------------------------------------------------
(* The events loop of handleData.  acc.s collects the state updates,       *)
(* acc.ref is scrollTopRef.current, acc.clean tells that no update is      *)
(* queued yet.  setScrollTopSafe's updater writes scrollTopRef when it     *)
(* runs: at once if React computes the update eagerly (only the first      *)
(* update of a component without pending work can be), else in the next    *)
(* render.                                                                 *)

WheelUp(prev) == Max(0, prev - WHEEL_STEP)

\* a wheel-down step that is not clamped
WheelDownUnclamped(prev, maxScrollRef) == prev + WHEEL_STEP

WheelDown(prev, maxScrollRef) == Min(maxScrollRef, prev + WHEEL_STEP)

Scrolled(acc, value, eager) ==
    [s |-> [acc.s EXCEPT !.scrollTop = value, !.manualScroll = TRUE],
     ref |-> IF acc.clean /\ eager THEN value ELSE acc.ref,
     clean |-> acc.clean /\ eager /\ value = acc.s.scrollTop]

\* wenclose: the click is inside the text content area
InBounds(e, h) ==
    /\ e.screenY >= ContentTop /\ e.screenY < ContentTop + SafeHeight(h)
    /\ e.screenX >= ContentLeft /\ e.screenX < ContentLeft + ContentWidth

\* a variant counting the rows from the top of the buffer
BufferRowIgnoresScroll(e, ref) == e.screenY - ContentTop

\* bufferRow of a click, from scrollTopRef.current
BufferRow(e, ref) == ref + (e.screenY - ContentTop)

\* a hit test that takes every click inside the text area, whatever its row
ClickAcceptedOnAnyRow(e, ref, ls, h) == InBounds(e, h)

ClickAccepted(e, ref, ls, h) ==
    /\ InBounds(e, h)
    /\ BufferRow(e, ref) >= 0
    /\ BufferRow(e, ref) < Len(ls)

\* a translation that keeps the clicked column past the end of the line
ClickPosPastEnd(e, ref, ls) ==
    Pos(BufferRow(e, ref), e.screenX - ContentLeft)

ClickPos(e, ref, ls) ==
    Pos(BufferRow(e, ref),
        Min(e.screenX - ContentLeft, Len(LineOr(ls, BufferRow(e, ref)))))

\* a dispatch that does not look at the final byte of the report
OneEventAnyFinal(acc, e, ls, h, eager) ==
    IF e.button = 64
    THEN Scrolled(acc, WheelUp(acc.s.scrollTop), eager)
    ELSE IF e.button = 65
    THEN Scrolled(acc, WheelDown(acc.s.scrollTop, MaxScroll(ls, h)), eager)
    ELSE IF e.button # 0 THEN acc
    ELSE IF ~ClickAccepted(e, acc.ref, ls, h) THEN acc
    ELSE [s |-> [acc.s EXCEPT !.cursor = ClickPos(e, acc.ref, ls),
                              !.manualScroll = TRUE],
          ref |-> acc.ref, clean |-> FALSE]

OneEvent(acc, e, ls, h, eager) ==
    IF e.isPress /\ e.button = 64
    THEN Scrolled(acc, WheelUp(acc.s.scrollTop), eager)
    ELSE IF e.isPress /\ e.button = 65
    THEN Scrolled(acc, WheelDown(acc.s.scrollTop, MaxScroll(ls, h)), eager)
    ELSE IF ~e.isPress \/ e.button # 0 THEN acc
    ELSE IF ~ClickAccepted(e, acc.ref, ls, h) THEN acc
    ELSE [s |-> [acc.s EXCEPT !.cursor = ClickPos(e, acc.ref, ls),
                              !.manualScroll = TRUE],
          ref |-> acc.ref, clean |-> FALSE]

RECURSIVE EventLoop(_, _, _, _, _)
EventLoop(acc, events, ls, h, eager) ==
    IF Len(events) = 0 THEN acc
    ELSE EventLoop(OneEvent(acc, Head(events), ls, h, eager),
                   Tail(events), ls, h, eager)

\* handleData(chunk) in settled state s
HandleData(s, chunk, eager) ==
    LET buffer == s.inbuf \o chunk
        scan == ScanBuffer(buffer, 0)
        start == [s |-> [s EXCEPT
                           !.inbuf = Residual(buffer, scan.consumedUntil)],
                  ref |-> s.scrollTop, clean |-> TRUE]
    IN EventLoop(start, scan.events, Lines(s), s.height, eager).s

----------------------------------------------------------------------------
(* Inputs of the model *)

\* all strings over alphabet of length at most n
StringsUpTo(alphabet, n) ==
    UNION {[1..k -> alphabet] : k \in 0..n}

\* the texts the host hands over as content
Docs == StringsUpTo({"a", NL}, MaxContentLen)

Heights == {4, 5}

Keys ==
    {Key(n, "", FALSE, FALSE) :
        n \in {"escape", "return", "backspace", "delete", "upArrow",
               "downArrow", "leftArrow", "rightArrow", "pageUp", "pageDown"}}
    \cup {Key("", i, TRUE, FALSE) : i \in {"e", "f", "s", "n", "p"}}
    \cup {Key("", "/", FALSE, FALSE), Key("", "a", FALSE, FALSE),
          Key("", "a", FALSE, TRUE)}

\* the report of a press of button at column x, row y of the text area
Press(button, x, y) ==
    Encode(button, ContentLeft + 1 + x, ContentTop + 1 + y, "M")

\* the bytes of some mouse reports: wheel, clicks in and around the text
\* area, a release, another button
Reports ==
    {Press(64, 0, 0), Press(65, 0, 0), Press(2, 0, 0),
     Encode(0, ContentLeft + 1, ContentTop + 1, "m"),
     Press(0, -1, 0), Press(0, 0, -1), Press(0, ContentWidth, 0)}
    \cup {Press(0, x, y) : x \in {0, 2}, y \in {0, 1}}

\* the chunks stdin delivers: one report, or two reports read at once
MouseChunks == Reports \cup {Press(65, 0, 0) \o Press(0, 0, 0)}

\* whether React computes the first queued update eagerly shows only when a
\* later report of the same chunk reads scrollTopRef
EagerChoices(buffer) ==
    IF Len(ScanBuffer(buffer, 0).events) > 1 THEN BOOLEAN ELSE {TRUE}

----------------------------------------------------------------------------
(* Actions *)

Commit(n) ==
    /\ content' = n.content
    /\ height' = n.height
    /\ isActive' = n.isActive
    /\ readOnly' = n.readOnly
    /\ cursor' = n.cursor
    /\ scrollTop' = n.scrollTop
    /\ manualScroll' = n.manualScroll
    /\ timerPending' = n.timerPending
    /\ searchMode' = n.searchMode
    /\ searchQuery' = n.searchQuery
    /\ searchMatches' = n.searchMatches
    /\ currentMatchIndex' = n.currentMatchIndex
    /\ inbuf' = n.inbuf
    /\ ttyOut' = n.ttyOut
    /\ mouseOn' = n.mouseOn

widget == <<content, height, isActive, readOnly, cursor, scrollTop,
            manualScroll, timerPending, searchMode, searchQuery,
            searchMatches, currentMatchIndex, inbuf, ttyOut, mouseOn>>

harness == <<stream, decoded, probe>>

\* a handler ran from settled state St and left post: React renders and
\* runs the effects until the state is settled again
Settle(post) == Commit(Rerender(St, [post EXCEPT !.ttyOut = << >>], FALSE))

\* a key arrives at useInput
KeyPressWithin(key, maxLen) ==
    /\ phase = "mounted"
    /\ IF KeyThrows(St, key)
       THEN phase' = "crashed" /\ Commit([St EXCEPT !.ttyOut = << >>])
       ELSE LET post == HandleKey(St, key)
            IN /\ Len(post.searchQuery) <= MaxQueryLen
               /\ Len(post.content) <= Max(Len(content), maxLen)
               /\ Settle(post)
               /\ UNCHANGED phase
    /\ UNCHANGED harness

KeyPress(key) == KeyPressWithin(key, MaxContentLen)

\* the widget's part of a chunk arriving at the stdin listener
Deliver(chunk, eager) ==
    /\ phase = "mounted"
    /\ isActive
    /\ Settle(HandleData(St, chunk, eager))
    /\ UNCHANGED phase

MouseData(chunk, eager) == Deliver(chunk, eager) /\ UNCHANGED harness

\* the 500 ms timer of the auto-scroll effect fires
GraceTimer ==
    /\ phase = "mounted"
    /\ timerPending
    /\ manualScroll' = FALSE
    /\ timerPending' = FALSE
    /\ ttyOut' = << >>
    /\ UNCHANGED <<phase, content, height, isActive, readOnly, cursor,
                   scrollTop, searchMode, searchQuery, searchMatches,
                   currentMatchIndex, inbuf, mouseOn, harness>>

\* the host passes another content
HostSetContent(c) ==
    /\ phase = "mounted"
    /\ c # content
    /\ Settle([St EXCEPT !.content = c])
    /\ UNCHANGED <<phase, harness>>

\* the host passes another isActive
HostSetActive(a) ==
    /\ phase = "mounted"
    /\ a # isActive
    /\ Settle([St EXCEPT !.isActive = a])
    /\ UNCHANGED <<phase, harness>>

\* the host passes another height
HostResize(h) ==
    /\ phase = "mounted"
    /\ h # height
    /\ Settle([St EXCEPT !.height = h])
    /\ UNCHANGED <<phase, harness>>

\* the host passes another readOnly
HostSetReadOnly(ro) ==
    /\ phase = "mounted"
    /\ ro # readOnly
    /\ Settle([St EXCEPT !.readOnly = ro])
    /\ UNCHANGED <<phase, harness>>

Blank == Mount(<< >>, 4, FALSE, FALSE)

\* the host removes the component: the effects' cleanups run
Unmount ==
    /\ phase = "mounted"
    /\ phase' = "unmounted"
    /\ Commit([Blank EXCEPT
                 !.ttyOut = MouseWrites(St, Blank, FALSE),
                 !.mouseOn = TtyAfter(mouseOn, MouseWrites(St, Blank, FALSE))])
    /\ UNCHANGED harness

\* the host renders the component anew
Remount(c, h, a, ro) ==
    /\ phase = "unmounted"
    /\ phase' = "mounted"
    /\ Commit(Mount(c, h, a, ro))
    /\ UNCHANGED harness

NoStream == [sent |-> << >>, pos |-> 0, cut |-> FALSE]

NoProbe == [op |-> "none"]

NoHarness ==
    /\ stream = NoStream
    /\ decoded = << >>
    /\ probe = NoProbe

\* the variables hold the component state m
Holds(m) ==
    /\ content = m.content
    /\ height = m.height
    /\ isActive = m.isActive
    /\ readOnly = m.readOnly
    /\ cursor = m.cursor
    /\ scrollTop = m.scrollTop
    /\ manualScroll = m.manualScroll
    /\ timerPending = m.timerPending
    /\ searchMode = m.searchMode
    /\ searchQuery = m.searchQuery
    /\ searchMatches = m.searchMatches
    /\ currentMatchIndex = m.currentMatchIndex
    /\ inbuf = m.inbuf
    /\ ttyOut = m.ttyOut
    /\ mouseOn = m.mouseOn

\* the widget, active and writable, handling its input
Init ==
    /\ phase = "mounted"
    /\ \E c \in Docs, h \in Heights : Holds(Mount(c, h, TRUE, FALSE))
    /\ NoHarness

Next ==
    \/ \E key \in Keys : KeyPress(key)
    \/ \E chunk \in MouseChunks : \E eager \in EagerChoices(inbuf \o chunk) :
          MouseData(chunk, eager)
    \/ GraceTimer
    \/ \E c \in Docs : HostSetContent(c)

Spec == Init /\ [][Next]_vars

\* the widget as the host activates, deactivates, resizes and removes it
\* the contents the host passes to a widget it activates and deactivates
LifeDocs == StringsUpTo({"a", NL}, MaxLifeLen)

InitLife ==
    /\ phase = "mounted"
    /\ \E c \in LifeDocs, h \in Heights, a \in BOOLEAN :
          Holds(Mount(c, h, a, FALSE))
    /\ NoHarness

NextLife ==
    \/ \E key \in Keys : KeyPressWithin(key, MaxLifeLen)
    \/ \E chunk \in MouseChunks : \E eager \in EagerChoices(inbuf \o chunk) :
          MouseData(chunk, eager)
    \/ GraceTimer
    \/ \E c \in LifeDocs : HostSetContent(c)
    \/ \E a \in BOOLEAN : HostSetActive(a)
    \/ \E h \in Heights \cup {3} : HostResize(h)
    \/ Unmount
    \/ \E c \in LifeDocs, h \in Heights, a \in BOOLEAN :
          Remount(c, h, a, FALSE)

SpecLife == InitLife /\ [][NextLife]_vars

----------------------------------------------------------------------------
(* The parser fed a stream of reports cut into chunks at any place *)

Report(button, col, row, press) ==
    [button |-> button, col |-> col, row |-> row, press |-> press]

\* the reports a terminal may send
SentPool ==
    {Report(64, 3, 6, TRUE), Report(65, 3, 6, TRUE), Report(0, 3, 6, TRUE),
     Report(0, 12, 7, FALSE), Report(2, 100, 5, TRUE)}

Streams == UNION {[1..k -> SentPool] : k \in 1..MaxSeqs}

\* the bytes of a sequence of reports
RECURSIVE Bytes(_)
Bytes(sent) ==
    IF Len(sent) = 0 THEN << >>
    ELSE Encode(Head(sent).button, Head(sent).col, Head(sent).row,
                IF Head(sent).press THEN "M" ELSE "m")
         \o Bytes(Tail(sent))

InitParse ==
    /\ phase = "mounted"
    /\ Holds(Mount(<<NL, NL>>, 5, TRUE, FALSE))
    /\ \E sent \in Streams : stream = [sent |-> sent, pos |-> 0, cut |-> FALSE]
    /\ decoded = << >>
    /\ probe = NoProbe

\* stdin delivers the next n bytes of the stream as one chunk
Feed(n) ==
    /\ stream.pos + n <= Len(Bytes(stream.sent))
    /\ LET chunk == SubSeq(Bytes(stream.sent), stream.pos + 1, stream.pos + n)
       IN /\ \E eager \in EagerChoices(inbuf \o chunk) : Deliver(chunk, eager)
          /\ decoded' = decoded \o ScanBuffer(inbuf \o chunk, 0).events
          /\ stream' = [stream EXCEPT !.pos = @ + n, !.cut = @ \/ inbuf' # << >>]
    /\ UNCHANGED probe

NextParse == \E n \in 1..Len(Bytes(stream.sent)) : Feed(n)

SpecParse == InitParse /\ [][NextParse]_vars

----------------------------------------------------------------------------
(* Single calls of the search and of the cursor motions, on any input *)

\* line buffers of one or two lines, of at most n characters in all
BuffersUpTo(alphabet, n) ==
    {<<l>> : l \in StringsUpTo(alphabet, n)}
    \cup {<<l1, l2>> : l1, l2 \in StringsUpTo(alphabet, n)}

ProbeAlphabet == {"a", "A", "b"}

ExampleLines == <<<<"x", "a", "b", "a", "b">>, <<"a", "b">>>>
ExampleQuery == <<"a", "b">>

FindInputs ==
    {[lines |-> ls, query |-> q] :
        ls \in {b \in BuffersUpTo(ProbeAlphabet, MaxProbeLen) :
                   Len(Join(b)) <= MaxProbeLen + 1},
        q \in StringsUpTo(ProbeAlphabet, MaxProbeQuery) \ {<< >>}}
    \cup {[lines |-> ExampleLines, query |-> ExampleQuery]}

InitFind ==
    /\ phase = "unmounted"
    /\ Holds(Blank)
    /\ stream = NoStream
    /\ decoded = << >>
    /\ \E in \in FindInputs :
          probe = [op |-> "findMatches", lines |-> in.lines,
                   query |-> in.query, done |-> FALSE, result |-> << >>]

CallFindMatches ==
    /\ ~probe.done
    /\ probe' = [probe EXCEPT
                   !.done = TRUE,
                   !.result = FindMatches(probe.lines, probe.query)]
    /\ UNCHANGED <<phase, widget, stream, decoded>>

NextFind == CallFindMatches

SpecFind == InitFind /\ [][NextFind]_vars

NavKeys == {"upArrow", "downArrow", "leftArrow", "rightArrow", "pageUp",
            "pageDown"}

\* line buffers of up to MaxProbeLines lines
NavBuffers ==
    UNION {[1..k -> StringsUpTo({"a"}, MaxProbeLen)] : k \in 1..MaxProbeLines}

\* the cursors inside a buffer
ValidCursors(ls) ==
    {Pos(r, c) : r \in 0..(Len(ls) - 1), c \in 0..MaxProbeLen}
    \cap {p \in [row : 0..(Len(ls) - 1), col : 0..MaxProbeLen] :
             p.col <= Len(ls[p.row + 1])}

InitNav ==
    /\ phase = "unmounted"
    /\ Holds(Blank)
    /\ stream = NoStream
    /\ decoded = << >>
    /\ \E ls \in NavBuffers, k \in NavKeys, h \in Heights :
          \E cur \in ValidCursors(ls) :
             probe = [op |-> k, lines |-> ls, cursor |-> cur, height |-> h,
                      done |-> FALSE, result |-> cur]

\* the key handler run on an active widget showing the buffer, with the
\* cursor at the probed place
CallNavigation ==
    /\ ~probe.done
    /\ probe' = [probe EXCEPT
                   !.done = TRUE,
                   !.result =
                       HandleKey([Mount(Join(probe.lines), probe.height,
                                        TRUE, FALSE)
                                  EXCEPT !.cursor = probe.cursor],
                                 Key(probe.op, "", FALSE, FALSE)).cursor]
    /\ UNCHANGED <<phase, widget, stream, decoded>>

NextNav == CallNavigation

SpecNav == InitNav /\ [][NextNav]_vars

----------------------------------------------------------------------------
(* Properties *)

Mounted == phase = "mounted"

InBuffer(ls, cur) ==
    /\ 0 <= cur.row
    /\ cur.row < Len(ls)
    /\ 0 <= cur.col
    /\ cur.col <= Len(ls[cur.row + 1])

\* C1: in every reachable state of the widget, once the effects have run,
\* the cursor lies inside the buffer: 0 <= cursor.row < lineCount and
\* 0 <= cursor.col <= length(line[cursor.row]).
C1_CursorInsideBuffer == Mounted => InBuffer(Split(content), cursor)

\* C2: in every reachable state the scroll offset is in range:
\* 0 <= scrollTop <= max(0, lineCount - visible content lines).
C2_ScrollTopInRange ==
    Mounted => /\ 0 <= scrollTop
               /\ scrollTop <= MaxScroll(Split(content), height)

\* C3: for every buffer and every valid cursor, each navigation key (arrow
\* up, down, left, right, page up, page down) yields a cursor inside the
\* buffer.
C3_NavigationKeepsCursorInside ==
    (probe.op \in NavKeys /\ probe.done) => InBuffer(probe.lines, probe.result)

\* a move down that landed on a shorter line
C3_MovedDownOntoShorterLine ==
    /\ probe.op = "downArrow"
    /\ probe.done
    /\ probe.result.row = probe.cursor.row + 1
    /\ probe.result.col < probe.cursor.col

LifetimeBegins == (phase = "unmounted" \/ ~isActive) /\ Mounted' /\ isActive'
LifetimeGoesOn == Mounted /\ isActive /\ Mounted' /\ isActive'
LifetimeEnds == Mounted /\ isActive /\ (phase' = "unmounted" \/ (Mounted' /\ ~isActive'))

\* C4, as stated: within one activation lifetime, whatever the events (keys,
\* mouse input, host content and geometry updates), the enable sequence is
\* written exactly once, at its beginning, and the disable sequence exactly
\* once, at its end.
C4_ExactlyOneEnableOneDisable ==
    [][/\ LifetimeBegins => ttyOut' = <<MOUSE_ENABLE>>
       /\ LifetimeGoesOn => ttyOut' = << >>
       /\ LifetimeEnds => ttyOut' = <<MOUSE_DISABLE>>]_vars

\* C4, amended: a lifetime begins with one enable and ends with one disable;
\* in between, a host geometry update that changes the content height
\* writes one disable followed by one enable, and no other event writes.
C4_WritesOfALifetime ==
    [][/\ LifetimeBegins => ttyOut' = <<MOUSE_ENABLE>>
       /\ LifetimeGoesOn =>
             ttyOut' = IF SafeHeight(height') # SafeHeight(height)
                       THEN <<MOUSE_DISABLE, MOUSE_ENABLE>>
                       ELSE << >>
       /\ LifetimeEnds => ttyOut' = <<MOUSE_DISABLE>>]_vars

\* the active widget after a geometry update made it subscribe again
C4_Resubscribed ==
    Mounted /\ isActive /\ ttyOut = <<MOUSE_DISABLE, MOUSE_ENABLE>>

\* no enable while enabled, no disable while not enabled
RECURSIVE WellPaired(_, _)
WellPaired(on, writes) ==
    \/ Len(writes) = 0
    \/ /\ Head(writes) = MOUSE_ENABLE
       /\ ~on
       /\ WellPaired(TRUE, Tail(writes))
    \/ /\ Head(writes) = MOUSE_DISABLE
       /\ on
       /\ WellPaired(FALSE, Tail(writes))

\* C5: the widget never writes the enable sequence while it has reporting
\* enabled, never writes the disable sequence while it has not, and after
\* unmount or deactivation its last write is a disable.
C5_PairedNoLeak ==
    [][(Mounted' \/ phase' = "unmounted") =>
          /\ WellPaired(mouseOn, ttyOut')
          /\ LifetimeEnds =>
                /\ ttyOut' # << >>
                /\ ttyOut'[Len(ttyOut')] = MOUSE_DISABLE
          /\ (phase' = "unmounted" \/ ~isActive') => ~mouseOn']_vars

\* the widget deactivated, its disable written
C5_DisabledOnDeactivation ==
    Mounted /\ ~isActive /\ ttyOut = <<MOUSE_DISABLE>> /\ ~mouseOn

Deactivated == Mounted /\ isActive /\ Mounted' /\ ~isActive'

\* C6, as stated: when the host deactivates the widget, mouse reporting is
\* disabled and the search state is cleared: afterwards search mode is off,
\* the query is empty and the match set is empty.
C6_DeactivationClearsSearch ==
    [][Deactivated =>
          /\ ~mouseOn'
          /\ ~searchMode'
          /\ searchQuery' = << >>
          /\ searchMatches' = << >>]_vars

\* C6, amended: when the host deactivates the widget, mouse reporting is
\* disabled by one disable write, and search mode, query, match set and
\* current match are left as they were.
C6_DeactivationDisablesMouseKeepsSearch ==
    [][Deactivated =>
          /\ ~mouseOn'
          /\ ttyOut' = <<MOUSE_DISABLE>>
          /\ searchMode' = searchMode
          /\ searchQuery' = searchQuery
          /\ searchMatches' = searchMatches
          /\ currentMatchIndex' = currentMatchIndex]_vars

\* the widget deactivated in the middle of a search
C6_InactiveInSearch ==
    /\ Mounted
    /\ ~isActive
    /\ ~mouseOn
    /\ searchMode
    /\ searchQuery # << >>
    /\ searchMatches # << >>

\* the event a report stands for
Expected(r) ==
    [button |-> r.button, screenX |-> r.col - 1, screenY |-> r.row - 1,
     isPress |-> r.press]

\* how many of the reports sent have arrived whole
Arrived ==
    Cardinality({i \in 1..Len(stream.sent) :
                    Len(Bytes(SubSeq(stream.sent, 1, i))) <= stream.pos})

\* C7: for any stream of complete SGR mouse sequences and any way of cutting
\* it into chunks, each sequence is decoded into exactly one event (button,
\* screenX = col - 1, screenY = row - 1, press iff the final byte is M), in
\* stream order, once its last byte has arrived: none dropped, none twice.
C7_EachSequenceDecodedOnce ==
    decoded = [i \in 1..Arrived |-> Expected(stream.sent[i])]

\* two reports decoded from a stream that was cut inside a sequence
C7_DecodedAcrossChunks ==
    /\ stream.cut
    /\ stream.pos = Len(Bytes(stream.sent))
    /\ Len(stream.sent) >= 2
    /\ Len(decoded) = Len(stream.sent)

FindDone == probe.op = "findMatches" /\ probe.done

\* C8: for every buffer and every non-empty query, the matches recorded on
\* one line do not overlap: for m1, m2 on the same row with m1.col < m2.col,
\* m1.col + m1.length <= m2.col.
C8_MatchesDoNotOverlap ==
    FindDone =>
       \A i, j \in 1..Len(probe.result) :
          LET m1 == probe.result[i]
              m2 == probe.result[j]
          IN (m1.row = m2.row /\ m1.col < m2.col) =>
                m1.col + m1.length <= m2.col

\* C9: findMatches(lines, query) for a non-empty query returns its matches
\* in document order (strictly increasing by row, then column), each of the
\* query's length, each where the line holds the query when compared
\* case-insensitively; "ab" on ["xabab", "ab"] gives (0,1,2), (0,3,2),
\* (1,0,2).
C9_FindMatchesInDocumentOrder ==
    FindDone =>
       LET res == probe.result
           q == probe.query
       IN /\ \A i \in 1..(Len(res) - 1) :
                \/ res[i].row < res[i + 1].row
                \/ res[i].row = res[i + 1].row /\ res[i].col < res[i + 1].col
          /\ \A i \in 1..Len(res) :
                /\ res[i].length = Len(q)
                /\ res[i].row \in 0..(Len(probe.lines) - 1)
                /\ res[i].col >= 0
                /\ res[i].col + Len(q) <= Len(probe.lines[res[i].row + 1])
                /\ \A k \in 1..Len(q) :
                      LowerChar(probe.lines[res[i].row + 1][res[i].col + k])
                         = LowerChar(q[k])
          /\ (probe.lines = ExampleLines /\ q = ExampleQuery) =>
                res = <<[row |-> 0, col |-> 1, length |-> 2],
                        [row |-> 0, col |-> 3, length |-> 2],
                        [row |-> 1, col |-> 0, length |-> 2]>>

\* the example searched
C9_ExampleSearched ==
    /\ FindDone
    /\ probe.lines = ExampleLines
    /\ probe.query = ExampleQuery
    /\ Len(probe.result) = 3

\* C10: in search mode, whenever the query changes and the new match set is
\* not empty, the current match becomes the match nearest to the cursor and
\* the cursor is moved onto it: after the key, (cursor.row, cursor.col) is
\* (row, col) of the match at currentMatchIndex.
C10_QueryChangeMovesCursorToMatch ==
    [][(/\ Mounted /\ Mounted'
        /\ searchMode /\ searchMode'
        /\ searchQuery' # searchQuery
        /\ searchMatches' # << >>) =>
          /\ currentMatchIndex' = ClosestIndex(searchMatches', cursor)
          /\ cursor' = Pos(searchMatches'[currentMatchIndex' + 1].row,
                           searchMatches'[currentMatchIndex' + 1].col)]_vars

----------------------------------------------------------------------------
(* Single key presses on a widget put into a given state *)

\* the settled state after the key handler ran in settled state s
AfterKey(s, key) == Rerender(s, [HandleKey(s, key) EXCEPT !.ttyOut = << >>], FALSE)

RECURSIVE AfterKeys(_, _, _)
AfterKeys(s, key, n) == IF n = 0 THEN s ELSE AfterKeys(AfterKey(s, key), key, n - 1)

NextKeys == {Key("", "n", TRUE, FALSE), Key("downArrow", "", FALSE, FALSE)}
PrevKeys == {Key("", "p", TRUE, FALSE), Key("upArrow", "", FALSE, FALSE)}

\* the other direction, by the same kind of key
Opposite(key) ==
    IF key.name = "downArrow" THEN Key("upArrow", "", FALSE, FALSE)
    ELSE IF key.name = "upArrow" THEN Key("downArrow", "", FALSE, FALSE)
    ELSE IF key.input = "n" THEN Key("", "p", TRUE, FALSE)
    ELSE Key("", "n", TRUE, FALSE)

\* a widget in search mode on the given lines, its match set computed, the
\* current match being the one at index
Searching(ls, h, query, index) ==
    [Mount(Join(ls), h, TRUE, FALSE) EXCEPT
       !.searchMode = TRUE,
       !.searchQuery = query,
       !.searchMatches = FindMatches(ls, query),
       !.currentMatchIndex = index]

CycleInputs ==
    {[lines |-> ls, query |-> q, index |-> i, key |-> k, height |-> h] :
        ls \in {b \in BuffersUpTo({"a", "b"}, MaxProbeLen) :
                   Len(Join(b)) <= MaxProbeLen + 1},
        q \in StringsUpTo({"a"}, MaxProbeQuery) \ {<< >>},
        i \in 0..MaxProbeLen, k \in NextKeys \cup PrevKeys, h \in Heights}

InitCycle ==
    /\ phase = "unmounted"
    /\ Holds(Blank)
    /\ stream = NoStream
    /\ decoded = << >>
    /\ \E in \in CycleInputs :
          /\ in.index < Max(1, Len(FindMatches(in.lines, in.query)))
          /\ probe = [op |-> "cycle", lines |-> in.lines, query |-> in.query,
                      index |-> in.index, key |-> in.key,
                      height |-> in.height, done |-> FALSE,
                      result |-> Blank, back |-> 0, around |-> 0]

\* the key pressed once; then the opposite key; and the key pressed as many
\* times as there are matches
CallCycle ==
    /\ ~probe.done
    /\ LET s == Searching(probe.lines, probe.height, probe.query, probe.index)
           after == AfterKey(s, probe.key)
       IN probe' = [probe EXCEPT
                      !.done = TRUE,
                      !.result = after,
                      !.back = AfterKey(after, Opposite(probe.key))
                                  .currentMatchIndex,
                      !.around = AfterKeys(s, probe.key,
                                           Len(s.searchMatches))
                                    .currentMatchIndex]
    /\ UNCHANGED <<phase, widget, stream, decoded>>

NextCycle == CallCycle

SpecCycle == InitCycle /\ [][NextCycle]_vars

CycleDone == probe.op = "cycle" /\ probe.done

\* C11: with a non-empty match set of size count, next sets currentMatchIndex
\* to (index + 1) % count and previous to (index - 1 + count) % count, and
\* moves the cursor onto that match; next then previous returns to the same
\* index, count times next returns to the starting index; with an empty
\* match set both are no-ops.
C11_NextPreviousCycle ==
    CycleDone =>
       LET matches == FindMatches(probe.lines, probe.query)
           count == Len(matches)
           s == Searching(probe.lines, probe.height, probe.query, probe.index)
           expected == IF probe.key \in NextKeys
                       THEN (probe.index + 1) % count
                       ELSE (probe.index - 1 + count) % count
       IN IF count = 0
          THEN /\ probe.result.cursor = s.cursor
               /\ probe.result.scrollTop = s.scrollTop
               /\ probe.result.currentMatchIndex = s.currentMatchIndex
               /\ probe.result.searchMatches = << >>
               /\ probe.result.searchMode
          ELSE /\ probe.result.currentMatchIndex = expected
               /\ probe.result.cursor = Pos(matches[expected + 1].row,
                                            matches[expected + 1].col)
               /\ probe.result.searchMatches = matches
               /\ probe.back = probe.index
               /\ probe.around = probe.index

\* next pressed on the last of three matches wrapped to the first
C11_WrappedAround ==
    /\ CycleDone
    /\ probe.key \in NextKeys
    /\ Len(probe.result.searchMatches) = 3
    /\ probe.index = 2
    /\ probe.result.currentMatchIndex = 0
    /\ probe.result.cursor = Pos(0, 0)

----------------------------------------------------------------------------
(* Single edit keys on a writable widget in normal mode *)

BACKSPACE == Key("backspace", "", FALSE, FALSE)

EditKeys ==
    {BACKSPACE, Key("delete", "", FALSE, FALSE),
     Key("return", "", FALSE, FALSE), Key("", "x", FALSE, FALSE),
     Key("", "/", FALSE, FALSE)}

EditExamples == {<<<<"a", "b">>, <<"c", "d">>, <<"e", "f">>>>, <<<<"a", "b">>>>}

\* line buffers of up to MaxProbeLines lines and MaxProbeLen characters
EditBuffers ==
    {b \in UNION {[1..k -> StringsUpTo({"a", "b"}, MaxProbeLen)] :
                     k \in 1..MaxProbeLines} :
        Len(Join(b)) <= MaxProbeLen + Len(b) - 1}
    \cup EditExamples

\* an active, writable widget in normal mode showing the buffer, the cursor
\* at the given place
Writable(ls, h, cur) ==
    [Mount(Join(ls), h, TRUE, FALSE) EXCEPT !.cursor = cur]

InitEdit ==
    /\ phase = "unmounted"
    /\ Holds(Blank)
    /\ stream = NoStream
    /\ decoded = << >>
    /\ \E ls \in EditBuffers, k \in EditKeys, h \in Heights :
          \E cur \in ValidCursors(ls) :
             probe = [op |-> "edit", lines |-> ls, cursor |-> cur, key |-> k,
                      height |-> h, done |-> FALSE, result |-> Blank,
                      undone |-> Blank]

\* the key pressed once, and Backspace pressed after it
CallEdit ==
    /\ ~probe.done
    /\ LET after == AfterKey(Writable(probe.lines, probe.height,
                                      probe.cursor), probe.key)
       IN probe' = [probe EXCEPT !.done = TRUE,
                                 !.result = after,
                                 !.undone = AfterKey(after, BACKSPACE)]
    /\ UNCHANGED <<phase, widget, stream, decoded>>

NextEdit == CallEdit

SpecEdit == InitEdit /\ [][NextEdit]_vars

EditDone == probe.op = "edit" /\ probe.done

\* the line without its character at index col
WithoutChar(line, col) == SubSeq(line, 1, col) \o SubSeq(line, col + 2, Len(line))

\* the buffer with line row replaced by the lines in repl
Replaced(ls, row, repl) ==
    SubSeq(ls, 1, row) \o repl \o SubSeq(ls, row + 2, Len(ls))

\* C12: Backspace in normal, writable mode: with col > 0 the character left
\* of the cursor is removed and the cursor becomes (row, col - 1); with
\* col = 0 and row > 0 the current line is appended to the previous line and
\* removed, and the cursor becomes (row - 1, original length of the previous
\* line); at (0, 0) buffer and cursor are unchanged.
C12_BackspaceDeletesOrJoins ==
    EditDone /\ IsBackspace(probe.key) =>
       LET ls == probe.lines
           row == probe.cursor.row
           col == probe.cursor.col
           out == Split(probe.result.content)
       IN IF col > 0
          THEN /\ out = Replaced(ls, row, <<WithoutChar(ls[row + 1], col - 1)>>)
               /\ probe.result.cursor = Pos(row, col - 1)
          ELSE IF row > 0
          THEN /\ out = SubSeq(ls, 1, row - 1) \o <<ls[row] \o ls[row + 1]>>
                        \o SubSeq(ls, row + 2, Len(ls))
               /\ Len(out) = Len(ls) - 1
               /\ probe.result.cursor = Pos(row - 1, Len(ls[row]))
          ELSE /\ out = ls
               /\ probe.result.cursor = Pos(0, 0)

\* Backspace at (2, 0) of ["ab", "cd", "ef"] gave ["ab", "cdef"], cursor (1, 2)
C12_JoinedLastTwoLines ==
    /\ EditDone
    /\ probe.key = BACKSPACE
    /\ probe.lines = <<<<"a", "b">>, <<"c", "d">>, <<"e", "f">>>>
    /\ probe.cursor = Pos(2, 0)
    /\ Split(probe.result.content) = <<<<"a", "b">>, <<"c", "d", "e", "f">>>>
    /\ probe.result.cursor = Pos(1, 2)

\* the key spliced its character into line row at col and moved the cursor
\* one column to the right
Typed(ls, cur, ch, after) ==
    /\ Split(after.content) =
          Replaced(ls, cur.row,
                   <<SubSeq(ls[cur.row + 1], 1, cur.col) \o <<ch>>
                     \o SubSeq(ls[cur.row + 1], cur.col + 1,
                               Len(ls[cur.row + 1]))>>)
    /\ after.cursor = Pos(cur.row, cur.col + 1)

\* C13, as stated: typing a single printable character ch in normal,
\* writable mode at a valid cursor (row, col) replaces line[row] by
\* line[row][0..col) + ch + line[row][col..), leaves every other line
\* unchanged and moves the cursor to (row, col + 1).
C13_PrintableCharacterIsInserted ==
    EditDone /\ IsPrintable(probe.key) =>
       Typed(probe.lines, probe.cursor, probe.key.input, probe.result)

\* C13, amended: so does every printable character other than "/"; typing
\* "/" enters search mode with an empty query and leaves the buffer and the
\* cursor as they were.
C13_PrintableButSlashIsInserted ==
    EditDone /\ IsPrintable(probe.key) =>
       IF probe.key.input = "/"
       THEN /\ Split(probe.result.content) = probe.lines
            /\ probe.result.cursor = probe.cursor
            /\ probe.result.searchMode
            /\ probe.result.searchQuery = << >>
       ELSE /\ Typed(probe.lines, probe.cursor, probe.key.input, probe.result)
            /\ ~probe.result.searchMode

\* "x" typed at (0, 1) on ["ab"] gave ["axb"], cursor (0, 2)
C13_TypedInsideLine ==
    /\ EditDone
    /\ probe.key.input = "x"
    /\ probe.lines = <<<<"a", "b">>>>
    /\ probe.cursor = Pos(0, 1)
    /\ Split(probe.result.content) = <<<<"a", "x", "b">>>>
    /\ probe.result.cursor = Pos(0, 2)

\* C14: Enter in normal, writable mode at a valid cursor (row, col) cuts
\* line[row] to its first col characters, inserts the remainder as a new
\* line at row + 1 (one line more, the others unchanged and in order) and
\* moves the cursor to (row + 1, 0); a following Backspace restores the
\* original buffer and the cursor (row, col).
C14_EnterSplitsBackspaceRejoins ==
    EditDone /\ probe.key.name = "return" =>
       LET ls == probe.lines
           row == probe.cursor.row
           col == probe.cursor.col
           line == ls[row + 1]
           out == Split(probe.result.content)
       IN /\ out = Replaced(ls, row, <<SubSeq(line, 1, col),
                                       SubSeq(line, col + 1, Len(line))>>)
          /\ Len(out) = Len(ls) + 1
          /\ probe.result.cursor = Pos(row + 1, 0)
          /\ Split(probe.undone.content) = ls
          /\ probe.undone.cursor = Pos(row, col)

\* Enter at (0, 1) of ["ab"] gave ["a", "b"], cursor (1, 0), and Backspace
\* gave ["ab"], cursor (0, 1), back
C14_SplitAndRejoined ==
    /\ EditDone
    /\ probe.key.name = "return"
    /\ probe.lines = <<<<"a", "b">>>>
    /\ probe.cursor = Pos(0, 1)
    /\ Split(probe.result.content) = <<<<"a">>, <<"b">>>>
    /\ probe.result.cursor = Pos(1, 0)
    /\ Split(probe.undone.content) = <<<<"a", "b">>>>
    /\ probe.undone.cursor = Pos(0, 1)

----------------------------------------------------------------------------
(* The content split into lines and the lines joined again *)

\* contents with leading, trailing and consecutive newlines among them
SplitInputs == StringsUpTo({"a", " ", NL}, MaxSplitLen)

InitSplit ==
    /\ phase = "unmounted"
    /\ Holds(Blank)
    /\ stream = NoStream
    /\ decoded = << >>
    /\ \E c \in SplitInputs :
          probe = [op |-> "split", content |-> c, done |-> FALSE,
                   lines |-> << >>, joined |-> << >>]

\* lines = content.split('\n'), then what updateContent hands to onChange
\* for these lines
CallSplitJoin ==
    /\ ~probe.done
    /\ probe' = [probe EXCEPT !.done = TRUE,
                              !.lines = Split(probe.content),
                              !.joined = Join(Split(probe.content))]
    /\ UNCHANGED <<phase, widget, stream, decoded>>

NextSplit == CallSplitJoin

SpecSplit == InitSplit /\ [][NextSplit]_vars

SplitDone == probe.op = "split" /\ probe.done

\* the number of newlines in a string
Newlines(s) == Cardinality({i \in 1..Len(s) : s[i] = NL})

\* C15: splitting the content on newline and joining the lines with newline
\* gives the content back, for every content: empty, or with leading,
\* trailing or consecutive newlines. The split has one line more than the
\* content has newlines and no line holds a newline.
C15_JoinOfSplitIsContent ==
    SplitDone =>
       /\ probe.joined = probe.content
       /\ Len(probe.lines) = Newlines(probe.content) + 1
       /\ \A i \in 1..Len(probe.lines) : Newlines(probe.lines[i]) = 0

\* a content with a leading, two consecutive and a trailing newline was
\* split into four lines and joined
C15_NewlinesAtBothEnds ==
    /\ SplitDone
    /\ probe.content = <<NL, "a", NL, NL>>
    /\ probe.lines = <<<< >>, <<"a">>, << >>, << >>>>
    /\ probe.joined = probe.content

----------------------------------------------------------------------------
(* Mouse reports observed: the widget is used for a while, then one chunk   *)
(* arrives and the state it was delivered in is kept next to the inputs     *)

\* ["ab", "", "a"] in a text area of six rows, ["a", "", "ab", "", "", "a"]
\* in one of two rows
MouseSetups ==
    {[content |-> <<"a", "b", NL, NL, "a">>, height |-> 9],
     [content |-> <<"a", NL, NL, "a", "b", NL, NL, NL, "a">>, height |-> 5]}

RoamKeys == {k \in Keys : ~IsBackspace(k)}

RoamChunks == {Press(64, 0, 0), Press(65, 0, 0), Press(0, 0, 1)}

\* the reports observed: presses of the primary button in and around the
\* text area, wheel presses, releases, other buttons
Clicks ==
    {Press(0, x, y) : x \in {-1, 0, 3, ContentWidth - 1, ContentWidth},
                      y \in {-1, 0, 1, 5, 6}}

Wheels == {Press(64, 0, 0), Press(65, 0, 0)}

Ignored ==
    {Encode(b, ContentLeft + 1, ContentTop + 1, "m") : b \in {0, 64, 65}}
    \cup {Press(b, 0, 0) : b \in {1, 2, 4, 32, 66}}

WatchedChunks ==
    Clicks \cup Wheels \cup Ignored
    \cup {Press(65, 0, 0) \o Press(0, 1, 0),
          Press(0, 0, 6) \o Press(0, -1, 0),
          Encode(0, ContentLeft + 1, ContentTop + 1, "m") \o Press(1, 0, 0)}

\* the watched chunks with the events their bytes decode to
Watched ==
    {[chunk |-> c, events |-> ScanBuffer(c, 0).events] : c \in WatchedChunks}

InitMouse ==
    /\ phase = "mounted"
    /\ \E m \in MouseSetups : Holds(Mount(m.content, m.height, TRUE, FALSE))
    /\ stream = NoStream
    /\ decoded = << >>
    /\ probe = NoProbe

\* the widget in use, nothing observed yet
RoamKey(key) == probe = NoProbe /\ KeyPressWithin(key, 0)

RoamMouse(chunk) == probe = NoProbe /\ MouseData(chunk, TRUE)

RoamTimer == probe = NoProbe /\ GraceTimer

\* one chunk arrives at the stdin listener, whose buffer is empty, and is
\* observed
WatchMouse(w, eager) ==
    /\ probe = NoProbe
    /\ inbuf = << >>
    /\ Deliver(w.chunk, eager)
    /\ probe' = [op |-> "mouse", chunk |-> w.chunk, events |-> w.events,
                 eager |-> eager, before |-> St]
    /\ UNCHANGED <<stream, decoded>>

NextMouse ==
    \/ \E key \in RoamKeys : RoamKey(key)
    \/ \E chunk \in RoamChunks : RoamMouse(chunk)
    \/ RoamTimer
    \/ \E w \in Watched :
          \E eager \in IF Len(w.events) > 1 THEN BOOLEAN ELSE {TRUE} :
             WatchMouse(w, eager)

SpecMouse == InitMouse /\ [][NextMouse]_vars

MouseSeen == probe.op = "mouse"

\* cursor, scrollTop, manual-scroll flag, buffer and search state are as
\* they were before the chunk, and the widget is running
Untouched ==
    /\ phase = "mounted"
    /\ cursor = probe.before.cursor
    /\ scrollTop = probe.before.scrollTop
    /\ manualScroll = probe.before.manualScroll
    /\ content = probe.before.content
    /\ searchMode = probe.before.searchMode
    /\ searchQuery = probe.before.searchQuery
    /\ searchMatches = probe.before.searchMatches
    /\ currentMatchIndex = probe.before.currentMatchIndex

PrimaryPress(e) == e.isPress /\ e.button = 0

\* the claim's text area: contentTop = screenTop + 1, contentLeft =
\* screenLeft + 2, of contentHeight rows and contentWidth columns
InsideTextArea(e, h) ==
    /\ SCREEN_TOP + 1 <= e.screenY
    /\ e.screenY < SCREEN_TOP + 1 + Max(1, h - 3)
    /\ SCREEN_LEFT + 2 <= e.screenX
    /\ e.screenX < SCREEN_LEFT + 2 + Max(1, DEFAULT_COLUMNS - 4)

\* the translated row of a click
TranslatedRow(e, top) == top + (e.screenY - (SCREEN_TOP + 1))

\* C16: a primary-button press outside the text content area, or whose
\* translated row scrollTop + (screenY - contentTop) is not less than the
\* line count, is ignored: cursor, scrollTop, manual-scroll flag, buffer and
\* search state are unchanged and no error is raised.
C16_RejectedClickIsIgnored ==
    MouseSeen
    /\ Len(probe.events) > 0
    /\ (\A i \in 1..Len(probe.events) :
           LET e == probe.events[i]
           IN /\ PrimaryPress(e)
              /\ \/ ~InsideTextArea(e, probe.before.height)
                 \/ TranslatedRow(e, probe.before.scrollTop)
                       >= Len(Split(probe.before.content)))
    => Untouched

\* a click on row scrollTop + 5 of the text area, on a buffer of three
\* lines, was ignored
C16_ClickBelowLastLine ==
    /\ MouseSeen
    /\ Len(probe.events) = 1
    /\ PrimaryPress(probe.events[1])
    /\ InsideTextArea(probe.events[1], probe.before.height)
    /\ TranslatedRow(probe.events[1], 0) = 5
    /\ Len(Split(probe.before.content)) = 3
    /\ Untouched

\* the place an accepted click asks for, with the rows above the window
\* numbering top
Clicked(e, top, ls) ==
    Pos(TranslatedRow(e, top),
        Min(e.screenX - (SCREEN_LEFT + 2), Len(ls[TranslatedRow(e, top) + 1])))

\* wheel-down presses ahead of the last event of the chunk
WheelsAhead ==
    \A i \in 1..(Len(probe.events) - 1) :
       probe.events[i].isPress /\ probe.events[i].button = 65

\* C17: a primary-button press is accepted exactly when contentTop <=
\* screenY < contentTop + contentHeight and contentLeft <= screenX <
\* contentLeft + contentWidth (contentTop = screenTop + 1, contentLeft =
\* screenLeft + 2) and the translated row is inside the buffer; an accepted
\* click sets the cursor to (scrollTop + (screenY - contentTop),
\* min(screenX - contentLeft, length(line[bufferRow]))), with the scrollTop
\* and the lines current at the time of the click.  When a wheel report of
\* the same chunk precedes the click, that scrollTop is the one on screen or
\* the one the wheel report asked for.
C17_ClickIsTranslated ==
    MouseSeen
    /\ Len(probe.events) > 0
    /\ PrimaryPress(probe.events[Len(probe.events)])
    /\ WheelsAhead
    =>
       LET e == probe.events[Len(probe.events)]
           ls == Split(probe.before.content)
           tops == IF Len(probe.events) = 1 THEN {probe.before.scrollTop}
                   ELSE {probe.before.scrollTop, scrollTop}
           accepted(top) == /\ InsideTextArea(e, probe.before.height)
                            /\ TranslatedRow(e, top) < Len(ls)
       IN /\ phase = "mounted"
          /\ content = probe.before.content
          /\ \E top \in tops :
                IF accepted(top)
                THEN cursor = Clicked(e, top, ls) /\ manualScroll
                ELSE cursor = probe.before.cursor

\* a click past the end of line 2 ("ab") of the six-line buffer, scrolled
\* by one row, put the cursor at the end of that line
C17_ClickedPastEndOfLine ==
    /\ MouseSeen
    /\ Len(probe.events) = 1
    /\ PrimaryPress(probe.events[1])
    /\ probe.before.scrollTop = 1
    /\ probe.events[1].screenY = SCREEN_TOP + 2
    /\ probe.events[1].screenX = SCREEN_LEFT + 5
    /\ probe.before.cursor # Pos(2, 2)
    /\ cursor = Pos(2, 2)

WheelPress(e, code) == e.isPress /\ e.button = code

\* C18: a wheel-up press sets scrollTop to max(0, scrollTop - 2) and a
\* wheel-down press to min(maxScroll, scrollTop + 2); both set the
\* manual-scroll flag even when scrollTop does not change, and both leave
\* the cursor, the buffer and the search state unchanged.
C18_WheelScrollsByTwo ==
    MouseSeen /\ Len(probe.events) = 1
    /\ (WheelPress(probe.events[1], 64) \/ WheelPress(probe.events[1], 65))
    =>
       LET old == probe.before.scrollTop
           lineCount == Len(Split(probe.before.content))
           maxScroll == Max(0, lineCount - Max(1, probe.before.height - 3))
       IN /\ phase = "mounted"
          /\ scrollTop = IF probe.events[1].button = 64
                         THEN Max(0, old - 2)
                         ELSE Min(maxScroll, old + 2)
          /\ manualScroll
          /\ cursor = probe.before.cursor
          /\ content = probe.before.content
          /\ searchMode = probe.before.searchMode
          /\ searchQuery = probe.before.searchQuery
          /\ searchMatches = probe.before.searchMatches
          /\ currentMatchIndex = probe.before.currentMatchIndex

\* wheel-down at scrollTop = maxScroll = 4 left scrollTop alone and set the
\* manual-scroll flag, which was not set
C18_WheelDownAtTheEnd ==
    /\ MouseSeen
    /\ Len(probe.events) = 1
    /\ WheelPress(probe.events[1], 65)
    /\ probe.before.scrollTop = 4
    /\ ~probe.before.manualScroll
    /\ scrollTop = 4
    /\ manualScroll

\* C19: only press events with button code 0, 64 or 65 are acted upon:
\* every release event and every event with any other button code leaves
\* cursor, scrollTop, manual-scroll flag, buffer and search state unchanged.
C19_OtherReportsAreIgnored ==
    MouseSeen
    /\ Len(probe.events) > 0
    /\ (\A i \in 1..Len(probe.events) :
           \/ ~probe.events[i].isPress
           \/ probe.events[i].button \notin {0, 64, 65})
    => Untouched

\* the release of a wheel-down report arrived at a widget that could have
\* scrolled down, and nothing moved
C19_WheelReleaseIgnored ==
    /\ MouseSeen
    /\ Len(probe.events) = 1
    /\ ~probe.events[1].isPress
    /\ probe.events[1].button = 65
    /\ probe.before.scrollTop = 0
    /\ Len(Split(probe.before.content)) = 6
    /\ Untouched

----------------------------------------------------------------------------
(* The widget read-only or writable, as the host decides: it is used for a  *)
(* while, then one key or one chunk arrives and is observed                 *)

\* wheel presses and a click
ReadOnlyWatched == {w \in Watched : w.chunk \in RoamChunks}

InitReadOnly ==
    /\ phase = "mounted"
    /\ \E c \in LifeDocs, h \in Heights, ro \in BOOLEAN :
          Holds(Mount(c, h, TRUE, ro))
    /\ stream = NoStream
    /\ decoded = << >>
    /\ probe = NoProbe

RoamKeyWithin(key, maxLen) == probe = NoProbe /\ KeyPressWithin(key, maxLen)

\* the host changes its view mode
RoamView(ro) == probe = NoProbe /\ HostSetReadOnly(ro)

\* one key arrives at useInput and is observed, with the callbacks invoked
WatchKey(key) ==
    /\ probe = NoProbe
    /\ phase = "mounted"
    /\ ~KeyThrows(St, key)
    /\ Len(HandleKey(St, key).searchQuery) <= MaxQueryLen
    /\ Settle(HandleKey(St, key))
    /\ probe' = [op |-> "key", key |-> key, before |-> St,
                 calls |-> Callbacks(St, key)]
    /\ UNCHANGED <<phase, stream, decoded>>

NextReadOnly ==
    \/ \E key \in Keys : RoamKeyWithin(key, MaxLifeLen)
    \/ \E chunk \in RoamChunks : RoamMouse(chunk)
    \/ RoamTimer
    \/ \E ro \in BOOLEAN : RoamView(ro)
    \/ \E key \in Keys : WatchKey(key)
    \/ \E w \in ReadOnlyWatched : WatchMouse(w, TRUE)

SpecReadOnly == InitReadOnly /\ [][NextReadOnly]_vars

KeySeen == probe.op = "key"

\* an attempted edit: Backspace, Delete, Enter or a printable character
\* other than the search key
EditAttempt(key) ==
    \/ key.name \in {"backspace", "delete", "return"}
    \/ key.input # "" /\ key.input # "/" /\ ~key.ctrl /\ ~key.meta

\* the settled state the same input leaves when the widget is writable
Twin ==
    LET s == [probe.before EXCEPT !.readOnly = FALSE]
    IN IF KeySeen
       THEN AfterKey(s, probe.key)
       ELSE Rerender(s, [HandleData(s, probe.chunk, probe.eager)
                         EXCEPT !.ttyOut = << >>], FALSE)

\* C20: while the widget is read-only, no key press and no mouse event
\* mutates the buffer or invokes onChange; an attempted edit keystroke in
\* normal mode (printable character, Enter, Backspace/Delete) invokes
\* onRequestWritable and leaves the cursor, as all of the state, unchanged;
\* every other key and every mouse event does what it does in writable mode.
C20_ReadOnlyNeverEdits ==
    (KeySeen \/ MouseSeen) /\ probe.before.readOnly =>
       /\ phase = "mounted"
       /\ readOnly
       /\ content = probe.before.content
       /\ KeySeen => \A i \in 1..Len(probe.calls) : probe.calls[i] # "onChange"
       /\ IF KeySeen /\ ~probe.before.searchMode /\ EditAttempt(probe.key)
          THEN /\ probe.calls = <<"onRequestWritable">>
               /\ cursor = probe.before.cursor
               /\ St = [probe.before EXCEPT !.ttyOut = << >>]
          ELSE /\ St = [Twin EXCEPT !.readOnly = TRUE]
               /\ KeySeen =>
                     probe.calls = Callbacks([probe.before EXCEPT
                                                !.readOnly = FALSE],
                                             probe.key)

\* "a" typed into the read-only widget showing ["a"], in normal mode, asked
\* the host for a writable widget and changed nothing
C20_TypedIntoReadOnly ==
    /\ KeySeen
    /\ probe.before.readOnly
    /\ ~probe.before.searchMode
    /\ probe.key = Key("", "a", FALSE, FALSE)
    /\ probe.before.content = <<"a">>
    /\ probe.calls = <<"onRequestWritable">>
    /\ content = <<"a">>
    /\ cursor = probe.before.cursor

----------------------------------------------------------------------------
(* Keys observed: the widget is used for a while on a buffer of several     *)
(* lines, then one key arrives and is observed                              *)

InitWatch == InitMouse

NextWatch ==
    \/ \E key \in RoamKeys : RoamKey(key)
    \/ \E chunk \in RoamChunks : RoamMouse(chunk)
    \/ RoamTimer
    \/ \E key \in Keys : WatchKey(key)

SpecWatch == InitWatch /\ [][NextWatch]_vars

\* C21: Escape in search mode exits to normal mode, clears the query and
\* the match set, and leaves the cursor, scrollTop and the buffer exactly as
\* they were immediately before the key.
C21_EscapeLeavesSearch ==
    KeySeen /\ probe.before.isActive /\ probe.before.searchMode
    /\ probe.key.name = "escape"
    =>
       /\ phase = "mounted"
       /\ ~searchMode
       /\ searchQuery = << >>
       /\ searchMatches = << >>
       /\ cursor = probe.before.cursor
       /\ scrollTop = probe.before.scrollTop
       /\ content = probe.before.content

\* Escape pressed in a search that had found matches and, by Ctrl+N, moved
\* the cursor onto the last line
C21_EscapedAfterJump ==
    /\ KeySeen
    /\ probe.before.searchMode
    /\ probe.key.name = "escape"
    /\ Len(probe.before.searchMatches) = 3
    /\ probe.before.currentMatchIndex = 2
    /\ probe.before.cursor = Pos(5, 0)
    /\ ~searchMode
    /\ searchMatches = << >>
    /\ cursor = Pos(5, 0)

SearchKeySeen == KeySeen /\ probe.before.isActive /\ probe.before.searchMode

\* C22: Enter in search mode exits to normal mode; with a non-empty match
\* set the cursor is placed at the (row, col) of the match at
\* currentMatchIndex of the current match set, with an empty one the cursor
\* is unchanged; the buffer is unchanged in both cases.
C22_EnterConfirmsMatch ==
    SearchKeySeen /\ probe.key.name = "return" =>
       LET matches == FindMatches(Split(probe.before.content),
                                  probe.before.searchQuery)
       IN /\ phase = "mounted"
          /\ ~searchMode
          /\ content = probe.before.content
          /\ probe.before.searchMatches = matches
          /\ IF Len(matches) > 0
             THEN /\ probe.before.currentMatchIndex < Len(matches)
                  /\ cursor = Pos(matches[probe.before.currentMatchIndex + 1].row,
                                  matches[probe.before.currentMatchIndex + 1].col)
             ELSE cursor = probe.before.cursor

\* Enter confirmed the second of three matches while the cursor, moved by a
\* click, was elsewhere
C22_ConfirmedSecondMatch ==
    /\ SearchKeySeen
    /\ probe.key.name = "return"
    /\ Len(probe.before.searchMatches) = 3
    /\ probe.before.currentMatchIndex = 1
    /\ probe.before.cursor # Pos(2, 0)
    /\ cursor = Pos(2, 0)
    /\ ~searchMode

\* the printable keys and their character
Typeable(key) == key.input # "" /\ ~key.ctrl /\ ~key.meta

C24_MatchSetIsCurrent ==
    Mounted =>
       searchMatches = IF searchMode /\ searchQuery # << >>
                       THEN FindMatches(Split(content), searchQuery)
                       ELSE << >>

\* in search mode with query "a", the content is "a" + newline and the one
\* match is known
C24_MatchesOfOtherContent ==
    /\ Mounted
    /\ searchMode
    /\ searchQuery = <<"a">>
    /\ content = <<"a", NL>>
    /\ searchMatches = <<[row |-> 0, col |-> 0, length |-> 1]>>

----------------------------------------------------------------------------
(* Two edit keys in a row on a writable widget in normal mode *)

TwoKeys == {BACKSPACE, Key("return", "", FALSE, FALSE),
            Key("", "x", FALSE, FALSE), Key("", "y", FALSE, FALSE)}

\* line buffers of one or two lines and up to MaxProbeLen characters
TwoEditBuffers ==
    {b \in UNION {[1..k -> StringsUpTo({"a", "b"}, MaxProbeLen)] :
                     k \in 1..2} :
        Len(Join(b)) <= MaxProbeLen + Len(b) - 1}

InitTwoEdits ==
    /\ phase = "unmounted"
    /\ Holds(Blank)
    /\ stream = NoStream
    /\ decoded = << >>
    /\ \E ls \in TwoEditBuffers, k1, k2 \in TwoKeys,
          h \in Heights :
          \E cur \in ValidCursors(ls) :
             probe = [op |-> "two edits", lines |-> ls, cursor |-> cur,
                      first |-> k1, second |-> k2, height |-> h,
                      done |-> FALSE, result |-> Blank]

\* the first key is handled and rendered, then the second
CallTwoEdits ==
    /\ ~probe.done
    /\ probe' = [probe EXCEPT
                   !.done = TRUE,
                   !.result = AfterKey(AfterKey(Writable(probe.lines,
                                                         probe.height,
                                                         probe.cursor),
                                                probe.first),
                                       probe.second)]
    /\ UNCHANGED <<phase, widget, stream, decoded>>

NextTwoEdits == CallTwoEdits

SpecTwoEdits == InitTwoEdits /\ [][NextTwoEdits]_vars

TwoEditsDone == probe.op = "two edits" /\ probe.done

\* the Line Buffer contract: insertChar, splitLine and deleteBackward on a
\* buffer and a cursor inside it
Contract(e, key) ==
    LET ls == e.lines
        row == e.cursor.row
        col == e.cursor.col
        line == ls[row + 1]
    IN IF key.name = "return"
       THEN [lines |-> Replaced(ls, row, <<SubSeq(line, 1, col),
                                           SubSeq(line, col + 1, Len(line))>>),
             cursor |-> Pos(row + 1, 0)]
       ELSE IF key.name \in {"backspace", "delete"}
       THEN IF col > 0
            THEN [lines |-> Replaced(ls, row, <<WithoutChar(line, col - 1)>>),
                  cursor |-> Pos(row, col - 1)]
            ELSE IF row > 0
            THEN [lines |-> SubSeq(ls, 1, row - 1) \o <<ls[row] \o line>>
                            \o SubSeq(ls, row + 2, Len(ls)),
                  cursor |-> Pos(row - 1, Len(ls[row]))]
            ELSE e
       ELSE [lines |-> Replaced(ls, row, <<SubSeq(line, 1, col)
                                           \o <<key.input>>
                                           \o SubSeq(line, col + 1, Len(line))>>),
             cursor |-> Pos(row, col + 1)]

Editing(s) == s.isActive /\ ~s.readOnly /\ ~s.searchMode

\* the content the Line Buffer contract gives for an edit key in state s
Edited(s, key) ==
    Join(Contract([lines |-> Split(s.content), cursor |-> s.cursor], key).lines)

\* C26: every edit keystroke handled in normal, writable mode (printable
\* character, Enter, Backspace/Delete) reports the full new content to the
\* host exactly once through onChange, as the new lines joined with
\* newlines; navigation keys, search-mode keys, mouse events, the grace
\* timer and content-change reconciliation never invoke onChange: the
\* content the host holds changes in no other step.
C26_OnChangeOncePerEdit ==
    [][/\ probe = NoProbe /\ probe'.op = "key" =>
             IF Editing(St) /\ EditAttempt(probe'.key)
             THEN /\ probe'.calls = <<"onChange">>
                  /\ content' = Edited(St, probe'.key)
             ELSE /\ \A i \in 1..Len(probe'.calls) :
                        probe'.calls[i] # "onChange"
                  /\ content' = content
       /\ content' # content =>
             /\ Editing(St)
             /\ \E key \in Keys :
                   EditAttempt(key) /\ content' = Edited(St, key)]_vars

\* Enter at the end of ["a"] reported "a" + newline through onChange
C26_ReportedSplitLine ==
    /\ KeySeen
    /\ probe.key.name = "return"
    /\ probe.before.content = <<"a">>
    /\ probe.before.cursor = Pos(0, 1)
    /\ probe.calls = <<"onChange">>
    /\ content = <<"a", NL>>

----------------------------------------------------------------------------
(* Input that is no mouse report: bytes without an escape, a report cut    *)
(* short, a report with a field missing.  The widget is used for a while,  *)
(* then stdin delivers up to MaxNoise chunks of it.                        *)

MaxNoise == 3

\* n bytes that belong to no report
Junk(n) == [i \in 1..n |-> "x"]

\* a click on the first row of the window, second column
TargetReport == Press(0, 1, 0)

\* where the target report is cut
Cuts == {5}

\* a report with two fields
Malformed == <<ESC, "[", "<", "0", ";", "1", "M">>

\* a whole report with the first bytes of the next one behind it
Tailed == TargetReport \o SubSeq(TargetReport, 1, 2)

NoiseChunks ==
    {SubSeq(TargetReport, 1, k) : k \in Cuts}
    \cup {SubSeq(TargetReport, k + 1, Len(TargetReport)) : k \in Cuts}
    \cup {Junk(BUFFER_LIMIT - 4), Malformed, Tailed}

\* the keys pressed before the chunks: typing "a" and searching for it
NoiseKeys ==
    {Key("", "/", FALSE, FALSE), Key("", "a", FALSE, FALSE)}

\* the six-line buffer in a window of two rows
InitNoise ==
    /\ phase = "mounted"
    /\ \E m \in {n \in MouseSetups : n.height = 5} :
          Holds(Mount(m.content, m.height, TRUE, FALSE))
    /\ stream = NoStream
    /\ decoded = << >>
    /\ probe = NoProbe

\* stdin delivers a chunk
Noise(chunk) ==
    /\ stream.pos < MaxNoise
    /\ Deliver(chunk, TRUE)
    /\ stream' = [sent |-> chunk, pos |-> stream.pos + 1,
                  cut |-> stream.cut \/ Len(inbuf \o chunk) > BUFFER_LIMIT]
    /\ UNCHANGED <<decoded, probe>>

\* the widget in use before the first chunk
RoamBefore(key) == stream.pos = 0 /\ RoamKey(key)

RoamMouseBefore(chunk) == stream.pos = 0 /\ RoamMouse(chunk)

NextNoise ==
    \/ \E key \in NoiseKeys : RoamBefore(key)
    \/ \E chunk \in RoamChunks : RoamMouseBefore(chunk)
    \/ RoamTimer
    \/ \E chunk \in NoiseChunks : Noise(chunk)

SpecNoise == InitNoise /\ [][NextNoise]_vars

\* buf[i..j] is a run of one digit or more
DigitRun(buf, i, j) == i <= j /\ \A k \in i..j : IsDigit(buf[k])

\* a complete SGR mouse sequence ESC [ < digits ; digits ; digits M|m is
\* somewhere in buf
HasComplete(buf) ==
    \E i \in 1..Len(buf) :
       /\ buf[i] = ESC
       /\ i + 2 <= Len(buf) /\ buf[i + 1] = "[" /\ buf[i + 2] = "<"
       /\ \E a \in (i + 4)..Len(buf) :
             /\ buf[a] = ";"
             /\ DigitRun(buf, i + 3, a - 1)
             /\ \E b \in (a + 2)..Len(buf) :
                   /\ buf[b] = ";"
                   /\ DigitRun(buf, a + 1, b - 1)
                   /\ \E c \in (b + 2)..Len(buf) :
                         /\ buf[c] \in {"M", "m"}
                         /\ DigitRun(buf, b + 1, c - 1)

\* buf ends with the first k bytes of the target report
EndsWithCut(buf, k) ==
    /\ k <= Len(buf)
    /\ SubSeq(buf, Len(buf) - k + 1, Len(buf)) = SubSeq(TargetReport, 1, k)

\* the step is the arrival of a chunk
ChunkArrives == stream'.pos = stream.pos + 1

\* C27: malformed or partial mouse input produces no event and raises no
\* error: a chunk that leaves the accumulated input without a complete SGR
\* sequence changes only the accumulator (cursor, scrollTop, manual-scroll
\* flag, buffer and search state are as before), and a partial sequence at
\* the end of the accumulator is completed by the chunk that brings its
\* remaining bytes: the click it reports is carried out.
C27_PartialInputOnlyAccumulates ==
    [][ChunkArrives =>
          LET buf == inbuf \o stream'.sent
          IN /\ phase' = "mounted"
             /\ ~HasComplete(buf) =>
                   /\ [St EXCEPT !.inbuf = << >>, !.ttyOut = << >>]'
                         = [St EXCEPT !.inbuf = << >>, !.ttyOut = << >>]
                   /\ inbuf' \in {buf, SliceLast(buf, BUFFER_TAIL)}
                   /\ Len(inbuf') <= BUFFER_LIMIT
             /\ \A k \in Cuts :
                   /\ EndsWithCut(inbuf, k)
                   /\ stream'.sent
                         = SubSeq(TargetReport, k + 1, Len(TargetReport))
                   => /\ cursor' = Clicked(EventAt(TargetReport, 0),
                                           scrollTop, Split(content))
                      /\ manualScroll'
                      /\ inbuf' = << >>]_vars

\* the target report arrived in two chunks behind more bytes than the
\* accumulator keeps, and moved the cursor
C27_CompletedAfterOverflow ==
    /\ stream.pos = 3
    /\ stream.cut
    /\ stream.sent = SubSeq(TargetReport, 6, Len(TargetReport))
    /\ inbuf = << >>
    /\ manualScroll
    /\ cursor = Pos(2, 1)
    /\ scrollTop = 2

\* C28: the viewport keeps the cursor visible: whenever a key that moves the
\* cursor or edits the buffer (a motion, an edit, a search jump) is processed
\* while the manual-scroll flag is clear, then once the effects have run
\* scrollTop <= cursor.row < scrollTop + visible rows, whatever the state
\* before, a viewport scrolled by the wheel whose grace period has expired
\* included.
C28_CursorStaysVisible ==
    /\ KeySeen
    /\ phase = "mounted"
    /\ probe.before.isActive
    /\ ~probe.before.manualScroll
    /\ (cursor # probe.before.cursor \/ content # probe.before.content)
    => /\ scrollTop <= cursor.row
       /\ cursor.row < scrollTop + SafeHeight(height)

----------------------------------------------------------------------------
(* The grace period.  The timer of the auto-scroll effect fires when it is *)
(* pending and 500 ms pass: weak fairness of the timer step.  Input may    *)
(* stop at any moment.                                                     *)

InitGrace == InitMouse

NextGrace ==
    \/ \E key \in RoamKeys : RoamKey(key)
    \/ \E chunk \in RoamChunks : RoamMouse(chunk)
    \/ RoamTimer

SpecGrace == InitGrace /\ [][NextGrace]_vars /\ WF_vars(RoamTimer)

\* C29: the manual-scroll suppression is transient: once a wheel event or a
\* click has set the manual-scroll flag, the grace timer eventually clears
\* it, even if no further input arrives and even if the wheel event left
\* scrollTop unchanged because it was already clamped.
C29_ManualFlagIsCleared == manualScroll ~> ~manualScroll

\* the match a search-mode key jumps to: the next one, the previous one or,
\* with Enter, the current one
JumpedIndex(s, key) ==
    LET n == Len(s.searchMatches)
    IN IF key.name = "return" THEN s.currentMatchIndex
       ELSE IF (key.ctrl /\ key.input = "n") \/ key.name = "downArrow"
       THEN (s.currentMatchIndex + 1) % n
       ELSE (s.currentMatchIndex - 1 + n) % n

JumpKey(key) ==
    \/ key.name \in {"return", "downArrow", "upArrow"}
    \/ key.ctrl /\ key.input \in {"n", "p"}

\* C30: when a jump to a search match (next, previous or confirm) targets a
\* match whose row is outside the viewport, scrollTop becomes
\* max(0, match.row - floor(visible rows / 2)), at most maxScroll, whether
\* the match is above or below the viewport; when the match row is visible
\* already, scrollTop is unchanged.
C30_JumpCentersMatch ==
    /\ SearchKeySeen
    /\ JumpKey(probe.key)
    /\ probe.before.searchMatches # << >>
    /\ probe.before.currentMatchIndex < Len(probe.before.searchMatches)
    =>
       LET b == probe.before
           match == b.searchMatches[JumpedIndex(b, probe.key) + 1]
           rows == SafeHeight(b.height)
           visible == b.scrollTop <= match.row /\ match.row < b.scrollTop + rows
       IN scrollTop = IF visible THEN b.scrollTop
                      ELSE Min(MaxScroll(Split(b.content), b.height),
                               Max(0, match.row - (rows \div 2)))

----------------------------------------------------------------------------
(* The nearest match of the search effect, on buffers with short lines and *)
(* on buffers with one line longer than ROW_WEIGHT characters              *)

MaxFarCol == 1001

\* a line with its only "a" at column n
Far(n) == [i \in 1..(n + 1) |-> IF i = n + 1 THEN "a" ELSE "x"]

NearestBuffers ==
    {b \in BuffersUpTo({"a", "b"}, 2) : Len(b) = 2}
    \cup {<<Far(n), <<"a">>>> : n \in (MaxFarCol - 2)..MaxFarCol}
    \cup {<<<<"b", "a">>, Far(n)>> : n \in (MaxFarCol - 2)..MaxFarCol}

NearestCursors(ls) ==
    {Pos(r, c) : r \in 0..(Len(ls) - 1), c \in {0, 1, 2, MaxFarCol + 1}}
    \cap {p \in [row : 0..(Len(ls) - 1), col : 0..(MaxFarCol + 1)] :
             p.col <= Len(ls[p.row + 1])}

InitNearest ==
    /\ phase = "unmounted"
    /\ Holds(Blank)
    /\ stream = NoStream
    /\ decoded = << >>
    /\ \E ls \in NearestBuffers :
          \E cur \in NearestCursors(ls) :
             probe = [op |-> "nearest", lines |-> ls, query |-> <<"a">>,
                      cursor |-> cur, matches |-> << >>, done |-> FALSE,
                      result |-> 0]

\* the search effect computes the matches and, if there are any, the index
\* of the closest one
CallNearest ==
    /\ ~probe.done
    /\ LET matches == FindMatches(probe.lines, probe.query)
       IN probe' = [probe EXCEPT
                      !.done = TRUE,
                      !.matches = matches,
                      !.result = IF Len(matches) > 0
                                 THEN ClosestIndex(matches, probe.cursor)
                                 ELSE 0]
    /\ UNCHANGED <<phase, widget, stream, decoded>>

NextNearest == CallNearest

SpecNearest == InitNearest /\ [][NextNearest]_vars

NearestDone == probe.op = "nearest" /\ probe.done /\ probe.matches # << >>

\* C31: on a query change with a non-empty match set, currentMatchIndex is
\* the index of a match minimising |match.row - cursor.row| * ROW_WEIGHT +
\* |match.col - cursor.col|, the lowest index on ties, and row proximity
\* takes priority over column proximity: the row distance of the chosen
\* match to the cursor is minimal among all matches, for every buffer and
\* cursor.
C31_NearestMatchPrefersRow ==
    NearestDone =>
       LET ms == probe.matches
           cur == probe.cursor
           weighted(m) == Abs(m.row - cur.row) * 1000 + Abs(m.col - cur.col)
           chosen == ms[probe.result + 1]
       IN /\ probe.result \in 0..(Len(ms) - 1)
          /\ \A j \in 1..Len(ms) : weighted(chosen) <= weighted(ms[j])
          /\ \A j \in 1..probe.result : weighted(ms[j]) > weighted(chosen)
          /\ \A j \in 1..Len(ms) :
                Abs(chosen.row - cur.row) <= Abs(ms[j].row - cur.row)

----------------------------------------------------------------------------
(* Rendering of one line: the Text elements it is drawn with, each with    *)
(* the column its text was sliced from.  Syntax highlighting is off.       *)

MaxRenderLen == 3

Seg(from, text, style) == [from |-> from, text |-> text, style |-> style]

\* line.length > renderWidth ? line.slice(0, renderWidth) : line
DisplayLine(line, renderWidth) ==
    IF Len(line) > renderWidth THEN Slice(line, 0, renderWidth) ELSE line

\* searchMatches.filter(m => m.row === row)
GetMatchesForRow(matches, row) ==
    SelectSeq(matches, LAMBDA m : m.row = row)

\* [...matches].filter(m => m.col < displayLine.length).sort by column: the
\* sort is stable
RECURSIVE SortByCol(_)
SortByCol(ms) ==
    IF Len(ms) <= 1 THEN ms
    ELSE LET least == CHOOSE i \in 1..Len(ms) :
                         /\ \A j \in 1..Len(ms) : ms[i].col <= ms[j].col
                         /\ \A j \in 1..(i - 1) : ms[j].col > ms[i].col
         IN <<ms[least]>>
            \o SortByCol(SubSeq(ms, 1, least - 1)
                         \o SubSeq(ms, least + 1, Len(ms)))

SortedMatches(matches, displayLine) ==
    SortByCol(SelectSeq(matches, LAMBDA m : m.col < Len(displayLine)))

\* searchMatches.indexOf(match) === currentMatchIndex
MatchStyle(all, match, current) ==
    IF \E i \in 1..Len(all) :
          /\ all[i] = match
          /\ \A j \in 1..(i - 1) : all[j] # match
          /\ i - 1 = current
    THEN "current" ELSE "match"

\* the forEach of renderLineWithHighlights over the sorted matches
RECURSIVE MatchSegments(_, _, _, _, _)
MatchSegments(displayLine, sorted, lastEnd, all, current) ==
    IF sorted = << >>
    THEN IF lastEnd < Len(displayLine)
         THEN <<Seg(lastEnd, SliceFrom(displayLine, lastEnd), "plain")>>
         ELSE << >>
    ELSE LET match == Head(sorted)
         IN (IF match.col > lastEnd
             THEN <<Seg(lastEnd, Slice(displayLine, lastEnd, match.col),
                        "plain")>>
             ELSE << >>)
            \o <<Seg(match.col,
                     Slice(displayLine, match.col, match.col + match.length),
                     MatchStyle(all, match, current))>>
            \o MatchSegments(displayLine, Tail(sorted),
                             match.col + match.length, all, current)

\* the forEach of renderSegmentWithHighlights over the relevant matches
RECURSIVE SegmentParts(_, _, _, _, _, _)
SegmentParts(segment, startCol, relevant, pos, all, current) ==
    IF relevant = << >>
    THEN IF pos < Len(segment)
         THEN <<Seg(startCol + pos, SliceFrom(segment, pos), "plain")>>
         ELSE << >>
    ELSE LET match == Head(relevant)
             matchStart == Max(0, match.col - startCol)
             matchEnd == Min(Len(segment),
                             match.col + match.length - startCol)
         IN (IF matchStart > pos
             THEN <<Seg(startCol + pos, Slice(segment, pos, matchStart),
                        "plain")>>
             ELSE << >>)
            \o <<Seg(startCol + matchStart,
                     Slice(segment, matchStart, matchEnd),
                     MatchStyle(all, match, current))>>
            \o SegmentParts(segment, startCol, Tail(relevant), matchEnd,
                            all, current)

RenderSegmentWithHighlights(segment, startCol, sorted, all, current) ==
    LET relevant == SelectSeq(sorted, LAMBDA m :
                        /\ m.col < startCol + Len(segment)
                        /\ m.col + m.length > startCol)
    IN IF relevant = << >> THEN <<Seg(startCol, segment, "plain")>>
       ELSE SegmentParts(segment, startCol, relevant, 0, all, current)

\* displayLine || ' '
OrBlank(text) == IF text = << >> THEN <<" ">> ELSE text

\* renderLineWithHighlights(line, row, isCursorLine) with the cursor in view
RenderLineWithHighlights(line, row, isCursorLine, cur, all, current, w) ==
    LET displayLine == DisplayLine(line, w)
        matches == GetMatchesForRow(all, row)
        sorted == SortedMatches(matches, displayLine)
    IN IF matches = << >> /\ ~isCursorLine
       THEN <<Seg(0, OrBlank(displayLine), "plain")>>
       ELSE IF isCursorLine
       THEN LET cursorCol == Min(cur.col, Len(displayLine))
                cursorChar == IF cursorCol < Len(displayLine)
                              THEN <<displayLine[cursorCol + 1]>>
                              ELSE <<" ">>
                cursorOnMatch == \E i \in 1..Len(sorted) :
                                    /\ cursorCol >= sorted[i].col
                                    /\ cursorCol
                                          < sorted[i].col + sorted[i].length
            IN RenderSegmentWithHighlights(Slice(displayLine, 0, cursorCol),
                                           0, sorted, all, current)
               \o <<Seg(cursorCol, cursorChar,
                        IF cursorOnMatch THEN "cursorOnMatch" ELSE "cursor")>>
               \o RenderSegmentWithHighlights(
                     SliceFrom(displayLine, cursorCol + 1), cursorCol + 1,
                     sorted, all, current)
       ELSE MatchSegments(displayLine, sorted, 0, all, current)

\* one line, a query, a render width and, if the cursor is on the line, its
\* column
RenderInputs ==
    {[line |-> l, query |-> q, renderWidth |-> w, isCursorLine |-> c,
      col |-> k] :
        l \in StringsUpTo({"a", "b"}, MaxRenderLen),
        q \in {<<"a">>, <<"a", "a">>, <<"a", "b">>, <<"b", "b", "b", "b">>},
        w \in 1..(MaxRenderLen + 1), c \in BOOLEAN, k \in 0..MaxRenderLen}

InitRender ==
    /\ phase = "unmounted"
    /\ Holds(Blank)
    /\ stream = NoStream
    /\ decoded = << >>
    /\ \E in \in RenderInputs :
          /\ in.col <= Len(in.line)
          /\ ~in.isCursorLine => in.col = 0
          /\ probe = [op |-> "render", line |-> in.line, query |-> in.query,
                      renderWidth |-> in.renderWidth,
                      isCursorLine |-> in.isCursorLine, col |-> in.col,
                      matches |-> << >>, done |-> FALSE, result |-> << >>]

\* the line is row 0 of a buffer in search mode, the first match is current
CallRender ==
    /\ ~probe.done
    /\ LET matches == FindMatches(<<probe.line>>, probe.query)
       IN probe' = [probe EXCEPT
                      !.done = TRUE,
                      !.matches = matches,
                      !.result = RenderLineWithHighlights(
                                    probe.line, 0, probe.isCursorLine,
                                    Pos(0, probe.col), matches, 0,
                                    probe.renderWidth)]
    /\ UNCHANGED <<phase, widget, stream, decoded>>

NextRender == CallRender

SpecRender == InitRender /\ [][NextRender]_vars

RenderDone == probe.op = "render" /\ probe.done

RECURSIVE TextOf(_)
TextOf(segs) ==
    IF segs = << >> THEN << >> ELSE Head(segs).text \o TextOf(Tail(segs))

\* C32: for every line, every match set produced by findMatches and every
\* render width, the rendered segments of the line are ordered and do not
\* overlap, and the concatenation of their text equals the width-truncated
\* line, followed by one blank cursor cell when the cursor is at the end of
\* that line (a line without text, cursor or match is drawn as one blank):
\* no character is dropped or rendered twice, and no highlight extends past
\* the truncated text.
C32_SegmentsTileTheLine ==
    RenderDone =>
       LET segs == probe.result
           shown == DisplayLine(probe.line, probe.renderWidth)
           atEnd == probe.isCursorLine /\ probe.col >= Len(shown)
           expected == IF atEnd THEN shown \o <<" ">>
                       ELSE IF shown = << >> THEN <<" ">>
                       ELSE shown
       IN /\ TextOf(segs) = expected
          /\ \A i, j \in 1..Len(segs) :
                i < j => segs[i].from + Len(segs[i].text) <= segs[j].from
          /\ \A i \in 1..Len(segs) :
                segs[i].style \in {"match", "current"}
                => segs[i].from + Len(segs[i].text) <= Len(shown)

----------------------------------------------------------------------------
(* One run of the auto-scroll effect on a given state *)

MaxViewLines == 6

\* the body of the effect: with the flag set it only starts the timer
EnsureVisible(s) ==
    IF AutoScrolls(s) THEN [s EXCEPT !.scrollTop = AutoScrollTop(s)]
    ELSE [s EXCEPT !.timerPending = s.manualScroll]

\* buffers of empty lines, every cursor row, every scrollTop inside the
\* buffer, windows of 1 to 3 rows
InitVisible ==
    /\ phase = "unmounted"
    /\ Holds(Blank)
    /\ stream = NoStream
    /\ decoded = << >>
    /\ \E n \in 1..MaxViewLines, h \in {4, 5, 6}, flag \in BOOLEAN :
          \E row, top \in 0..(n - 1) :
             probe = [op |-> "ensureVisible",
                      before |-> [Writable([i \in 1..n |-> << >>], h,
                                           Pos(row, 0))
                                  EXCEPT !.scrollTop = top,
                                         !.manualScroll = flag],
                      done |-> FALSE, result |-> Blank]

CallEnsureVisible ==
    /\ ~probe.done
    /\ probe' = [probe EXCEPT !.done = TRUE,
                              !.result = EnsureVisible(probe.before)]
    /\ UNCHANGED <<phase, widget, stream, decoded>>

NextVisible == CallEnsureVisible

SpecVisible == InitVisible /\ [][NextVisible]_vars

VisibleDone == probe.op = "ensureVisible" /\ probe.done

\* C33: ensureVisible: if the manual-scroll flag is set, scrollTop is left
\* unchanged whatever the cursor row; otherwise, if cursor.row < scrollTop
\* then scrollTop becomes cursor.row, if cursor.row >= scrollTop + visible
\* rows then scrollTop becomes min(maxScroll, cursor.row - visible rows + 1),
\* and if the cursor row is visible already scrollTop is unchanged.  It
\* never changes the cursor or the buffer.
C33_EnsureVisible ==
    VisibleDone =>
       LET b == probe.before
           rows == Max(1, b.height - 3)
           maxScroll == Max(0, Len(Split(b.content)) - rows)
       IN /\ probe.result.cursor = b.cursor
          /\ probe.result.content = b.content
          /\ probe.result.scrollTop =
                IF b.manualScroll THEN b.scrollTop
                ELSE IF b.cursor.row < b.scrollTop THEN b.cursor.row
                ELSE IF b.cursor.row >= b.scrollTop + rows
                THEN Min(maxScroll, b.cursor.row - rows + 1)
                ELSE b.scrollTop

\* the cursor was on row 5 below a window of two rows at the top: the window
\* now ends with row 5
C33_ScrolledDownToCursor ==
    /\ VisibleDone
    /\ ~probe.before.manualScroll
    /\ probe.before.height = 5
    /\ probe.before.scrollTop = 0
    /\ probe.before.cursor.row = 5
    /\ probe.result.scrollTop = 4

----------------------------------------------------------------------------
(* Navigation keys observed on the widget in use *)

\* a key observed in normal mode
NormalKeySeen == KeySeen /\ probe.before.isActive /\ ~probe.before.searchMode

\* C34: arrow keys in normal mode: Left moves to (row, col - 1) if col > 0,
\* else to the end of the previous line if row > 0, else stays at (0,0);
\* Right moves to (row, col + 1) if col < length(line[row]), else to
\* (row + 1, 0) if a next line exists, else stays; Up and Down change the
\* row by one (staying on the first or last row at the buffer edge) and set
\* col to min(col, length of the target line).  Arrow keys never change the
\* buffer.
C34_ArrowKeysMoveCursor ==
    NormalKeySeen
    /\ probe.key.name \in {"leftArrow", "rightArrow", "upArrow", "downArrow"}
    =>
       LET ls == Split(probe.before.content)
           row == probe.before.cursor.row
           col == probe.before.cursor.col
           len(r) == Len(ls[r + 1])
           target == IF probe.key.name = "upArrow" THEN Max(0, row - 1)
                     ELSE Min(Len(ls) - 1, row + 1)
       IN /\ phase = "mounted"
          /\ content = probe.before.content
          /\ cursor =
                CASE probe.key.name = "leftArrow" ->
                        IF col > 0 THEN Pos(row, col - 1)
                        ELSE IF row > 0 THEN Pos(row - 1, len(row - 1))
                        ELSE Pos(0, 0)
                  [] probe.key.name = "rightArrow" ->
                        IF col < len(row) THEN Pos(row, col + 1)
                        ELSE IF row + 1 < Len(ls) THEN Pos(row + 1, 0)
                        ELSE Pos(row, col)
                  [] OTHER -> Pos(target, Min(col, len(target)))

\* Left at the start of line 3 went to the end of line 2 ("ab")
C34_LeftWrappedToLineEnd ==
    /\ NormalKeySeen
    /\ probe.key.name = "leftArrow"
    /\ probe.before.cursor = Pos(3, 0)
    /\ cursor = Pos(2, 2)
    /\ content = probe.before.content

----------------------------------------------------------------------------
(* The handler of a page key on a given state, before any effect runs *)

PageKeys == {Key("pageUp", "", FALSE, FALSE), Key("pageDown", "", FALSE, FALSE)}

\* buffers of lines "a", every cursor and every scrollTop inside the buffer,
\* windows of 1 to 3 rows
InitPage ==
    /\ phase = "unmounted"
    /\ Holds(Blank)
    /\ stream = NoStream
    /\ decoded = << >>
    /\ \E n \in 1..MaxViewLines, h \in {4, 5, 6}, key \in PageKeys :
          \E row, top \in 0..(n - 1), col \in {0, 1} :
             probe = [op |-> "page", key |-> key,
                      before |-> [Writable([i \in 1..n |-> <<"a">>], h,
                                           Pos(row, col))
                                  EXCEPT !.scrollTop = top],
                      done |-> FALSE, result |-> Blank]

CallPageKey ==
    /\ ~probe.done
    /\ probe' = [probe EXCEPT !.done = TRUE,
                              !.result = HandleKey(probe.before, probe.key)]
    /\ UNCHANGED <<phase, widget, stream, decoded>>

NextPage == CallPageKey

SpecPage == InitPage /\ [][NextPage]_vars

PageDone == probe.op = "page" /\ probe.done

SequenceEnds(buf) ==
    {c \in 1..Len(buf) :
        /\ buf[c] \in {"M", "m"}
        /\ \E i \in 1..c :
              /\ buf[i] = ESC
              /\ i + 2 <= c /\ buf[i + 1] = "[" /\ buf[i + 2] = "<"
              /\ \E a \in (i + 4)..c :
                    /\ buf[a] = ";"
                    /\ DigitRun(buf, i + 3, a - 1)
                    /\ \E b \in (a + 2)..c :
                          /\ buf[b] = ";"
                          /\ DigitRun(buf, a + 1, b - 1)
                          /\ DigitRun(buf, b + 1, c - 1)}

\* C36: the parser's residual buffer is bounded: after a chunk that leaves
\* no complete sequence matched in the accumulator, the accumulator holds at
\* most 128 characters, and when it had grown beyond 128 it is cut to
\* exactly its last 32 characters; the bytes consumed by a decoded sequence,
\* and everything before it, are discarded.
C36_ResidualIsBounded ==
    [][ChunkArrives =>
          LET buf == inbuf \o stream'.sent
              ends == SequenceEnds(buf)
          IN IF ends = {}
             THEN /\ Len(inbuf') <= 128
                  /\ inbuf' = IF Len(buf) > 128
                              THEN SubSeq(buf, Len(buf) - 31, Len(buf))
                              ELSE buf
             ELSE \E last \in ends :
                     /\ \A c \in ends : c <= last
                     /\ inbuf' = SubSeq(buf, last + 1, Len(buf))]_vars

\* two chunks of junk were cut to 32 characters, and a report with two bytes
\* behind it left those two bytes
C36_CutThenConsumed ==
    /\ stream.pos = 3
    /\ stream.cut
    /\ stream.sent = Tailed
    /\ inbuf = SubSeq(TargetReport, 1, 2)

----------------------------------------------------------------------------
(* The widget in use, then one observed step of any kind: a key, a mouse   *)
(* report, the grace timer, another content from the host                  *)

InitMode == InitMouse

\* the grace timer fires and is observed
WatchTimer ==
    /\ probe = NoProbe
    /\ phase = "mounted"
    /\ timerPending
    /\ Commit([St EXCEPT !.manualScroll = FALSE, !.timerPending = FALSE,
                         !.ttyOut = << >>])
    /\ probe' = [op |-> "timer", before |-> St]
    /\ UNCHANGED <<phase, stream, decoded>>

\* the host passes another content and is observed
WatchContent(c) ==
    /\ probe = NoProbe
    /\ phase = "mounted"
    /\ c # content
    /\ Settle([St EXCEPT !.content = c])
    /\ probe' = [op |-> "content", before |-> St]
    /\ UNCHANGED <<phase, stream, decoded>>

NextMode ==
    \/ \E key \in RoamKeys : RoamKey(key)
    \/ \E chunk \in RoamChunks : RoamMouse(chunk)
    \/ RoamTimer
    \/ \E key \in Keys : WatchKey(key)
    \/ \E w \in {v \in Watched : v.chunk \in RoamChunks} : WatchMouse(w, TRUE)
    \/ WatchTimer
    \/ \E c \in Docs : WatchContent(c)

SpecMode == InitMode /\ [][NextMode]_vars

\* the keys that enter search mode, and those that leave it
EntersSearch(key) ==
    \/ key.ctrl /\ key.input = "f"
    \/ key.input = "/" /\ ~key.ctrl /\ ~key.meta

LeavesSearch(key) == key.name \in {"return", "escape"}

\* C37: the interaction mode changes only by the dedicated keys: normal
\* mode goes to search mode only on Ctrl+F or "/", which resets the query to
\* empty and inserts nothing into the buffer, and search mode goes to normal
\* mode only on Enter or Escape; wheel and click reports, the grace timer,
\* host content changes and all other keys leave the mode unchanged.
C37_ModeChangesByDedicatedKeys ==
    probe.op \in {"key", "mouse", "timer", "content"} =>
       IF probe.op = "key" /\ probe.before.isActive
          /\ ~probe.before.searchMode /\ EntersSearch(probe.key)
       THEN /\ searchMode
            /\ searchQuery = << >>
            /\ content = probe.before.content
       ELSE IF probe.op = "key" /\ probe.before.isActive
               /\ probe.before.searchMode /\ LeavesSearch(probe.key)
       THEN ~searchMode
       ELSE searchMode = probe.before.searchMode

\* "/" pressed in normal mode with the query of an earlier search still
\* held: search mode with an empty query
C37_SlashReopenedSearch ==
    /\ probe.op = "key"
    /\ probe.key.input = "/"
    /\ ~probe.before.searchMode
    /\ probe.before.searchQuery = <<"a">>
    /\ searchMode
    /\ searchQuery = << >>
    /\ content = probe.before.content

\* C38: whenever the match set is not empty, 0 <= currentMatchIndex < number
\* of matches, after any sequence of query edits, next and previous
\* navigation and host content changes: the active match is an element of
\* the current match set.
C38_CurrentMatchIndexInRange ==
    Mounted /\ searchMatches # << >> =>
       /\ 0 <= currentMatchIndex
       /\ currentMatchIndex < Len(searchMatches)

\* the second of two matches is the current one
C38_SecondMatchIsCurrent ==
    /\ Mounted
    /\ searchMode
    /\ Len(searchMatches) = 2
    /\ currentMatchIndex = 1

\* C39: an accepted left click places the cursor on a row inside the current
\* viewport (scrollTop <= cursor.row < scrollTop + visible rows), leaves
\* scrollTop, the buffer and the search state unchanged, and sets the
\* manual-scroll flag.  When wheel reports of the same chunk precede the
\* click, the viewport is the one on screen or the one the wheel reports
\* asked for, and scrollTop is what they asked for.
C39_AcceptedClickStaysInViewport ==
    LET b == probe.before
        e == probe.events[Len(probe.events)]
        rows == Max(1, b.height - 3)
        tops == IF Len(probe.events) = 1 THEN {b.scrollTop}
                ELSE {b.scrollTop, scrollTop}
    IN MouseSeen
       /\ Len(probe.events) > 0
       /\ PrimaryPress(e)
       /\ WheelsAhead
       /\ InsideTextArea(e, b.height)
       /\ (\A top \in tops : TranslatedRow(e, top) < Len(Split(b.content)))
       => /\ \E top \in tops : top <= cursor.row /\ cursor.row < top + rows
          /\ Len(probe.events) = 1 => scrollTop = b.scrollTop
          /\ content = b.content
          /\ searchMode = b.searchMode
          /\ searchQuery = b.searchQuery
          /\ searchMatches = b.searchMatches
          /\ currentMatchIndex = b.currentMatchIndex
          /\ manualScroll

\* a click on the second visible row of the window scrolled to row 2, in
\* search mode, with the cursor above the window
C39_ClickedWhileSearching ==
    /\ MouseSeen
    /\ Len(probe.events) = 1
    /\ PrimaryPress(probe.events[1])
    /\ probe.before.searchMode
    /\ probe.before.scrollTop = 2
    /\ probe.before.cursor.row = 0
    /\ cursor.row = 3
    /\ scrollTop = 2
    /\ manualScroll

====
